---- MODULE Spec2Model ----
(***************************************************************************)
(* The bucketed byte pool of graxinc/bytepool: BucketPool (an ordered      *)
(* array of sizedPools over sync.Pool free-lists), BucketPooler (the       *)
(* adaptive front-end with histogram bins and a default bucket) and the    *)
(* Grow helper.  Every goroutine is a thread with a program counter; one   *)
(* action is one atomic access of the code (a sync.Pool Get/Put, an atomic *)
(* Add/Load/Store/Swap/CompareAndSwap) together with the goroutine-local   *)
(* computation that follows it.  Indices are 0-based as in the Go code.    *)
(***************************************************************************)
EXTENDS Integers, Sequences, FiniteSets, TLC

\* ---- bounds of the model
MaxOps == 3      \* calls started in one behaviour of Spec (interleaved)
MaxSeqOps == 4   \* calls started in one behaviour of SpecSeq (one at a time)
MaxPoolOps == 5  \* calls started in one behaviour of SpecPool (BucketPool only)
MaxSchedOps == 26  \* calls started in one behaviour of SpecSched
MaxSharedOps == 3  \* calls started in one behaviour of SpecShared
MaxConvOps == 18   \* calls started in one behaviour of SpecConv
MaxOverOps == 26   \* calls started in one behaviour of SpecOver
MaxLockOps == 4    \* calls started in one behaviour of SpecLock
MaxImplOps == 4  \* calls started on a syncPool or dynamicPool in SpecImpl
MaxReq == 5      \* largest size a caller asks for (5 > the largest bucket)
MaxBufs == 2     \* Bytes alive at the same time

\* ---- configuration of the pool under verification
Sizes == <<2, 3, 4>>      \* NewBucketFull(LinearSizes(2, 4, 3))
BinChecks == 2            \* BucketPoolerOptions.BinChecks
ChooseInc == 2            \* BucketPoolerOptions.ChooseInc
MaxPoolPuts == 1          \* BucketPoolerOptions.MaxPoolPuts
DecayNum == 1             \* BucketPoolerOptions.Decay = DecayNum / DecayDen
DecayDen == 2
RampStart == -9           \* pooler.puts.Store(-9)
OversKeep == 10           \* over(): if len(s) > 10 { s = s[1:] }

Threads == {1, 2}         \* concurrent callers (goroutines)
Poolers == {1, 2}         \* BucketPoolers made from the one BucketPool
ConvFrom == 4             \* SpecConv: the first call of the skewed stream
ConvBin == 1              \* SpecConv: the bin of the skewed stream
Front == {1}              \* the BucketPoolers the callers go through

N == Len(Sizes)
Idx == 0 .. (N - 1)
Ids == 1 .. MaxBufs
Size(i) == Sizes[i + 1]
MaxSize == Size(N - 1)

VARIABLES
  pc,        \* pc[t]: where goroutine t stands ("idle": outside every call)
  call,      \* call[t]: the arguments and locals of t's current call
  held,      \* held[t]: the Bytes t's caller owns (0: none)
  bufs,      \* bufs[id]: len and cap of Bytes id's slice B
  freelist,  \* freelist[i]: the Bytes in pools[i].pool (a sync.Pool)
  hits,      \* pools[i].hits
  misses,    \* pools[i].misses
  overs,     \* BucketPool.overs
  oversLock, \* BucketPool.oversLock
  getOvers,  \* BucketPool.getOvers
  putOvers,  \* BucketPool.putOvers
  bins,      \* bins[p][i]: the histoBin i of pooler p
  defIdx,    \* defIdx[p]
  puts,      \* puts[p]
  ops,       \* calls started so far
  err,       \* the panic message once the program has panicked, else ""
  impl,      \* the constructor that made the pool: "bucket", "sync", "dynamic"
  pool,      \* syncPool.p / dynamicPool.pool (a sync.Pool)
  calls,     \* dynamicPool.calls
  calibrating, \* dynamicPool.calibrating
  defaultSize, \* dynamicPool.defaultSize
  maxSize,   \* dynamicPool.maxSize
  callSizes, \* dynamicPool.callSizes
  rt,        \* the caller's record of a GetFilled(n), Put, GetFilled(n) round
  overCalls, \* the calls made so far with a size beyond the largest bucket
  gen,       \* the call of a size generator or constructor under way
  rel,       \* two syncPools and the Bytes of their callers
  gets,      \* gets[p]: the Get() calls on pooler p that have returned
  v2pool     \* the put counter of a v2 BucketPool and its Put under way

vars == <<pc, call, held, bufs, freelist, hits, misses, overs, oversLock,
          getOvers, putOvers, bins, defIdx, puts, ops, err, impl, pool, calls,
          calibrating, defaultSize, maxSize, callSizes, rt, overCalls, gen,
          rel, gets, v2pool>>

bucketVars == <<freelist, hits, misses, overs, oversLock, getOvers, putOvers,
                bins, defIdx, puts, overCalls, gen, rel, gets, v2pool>>
dynVars == <<calls, calibrating, defaultSize, maxSize, callSizes>>
implVars == <<impl, pool, calls, calibrating, defaultSize, maxSize, callSizes,
              overCalls, gen, rel, gets, v2pool>>

poolVars == <<freelist, hits, misses>>
overVars == <<overs, oversLock, getOvers, putOvers>>
poolerVars == <<bins, defIdx, puts>>

\* ---- pure helpers

Min2(a, b) == IF a < b THEN a ELSE b
Max2(a, b) == IF a > b THEN a ELSE b

\* findPool comparing with < instead of <=
findPoolStrict(size) ==
  IF \E i \in Idx : size < Size(i)
  THEN CHOOSE i \in Idx : size < Size(i) /\ \A j \in 0 .. (i - 1) : size >= Size(j)
  ELSE -1

\* BucketPool.findPool: the first pool whose size covers `size`, -1 if none.
findPool(size) ==
  IF \E i \in Idx : size <= Size(i)
  THEN CHOOSE i \in Idx : size <= Size(i) /\ \A j \in 0 .. (i - 1) : size > Size(j)
  ELSE -1

\* Size classes of the Go allocator that a grown byte slice is rounded up to.
SizeClasses == <<8, 16, 24, 32, 48, 64, 80, 96, 112, 128>>

RoundUpSize(n) ==
  IF \E k \in 1 .. Len(SizeClasses) : n <= SizeClasses[k]
  THEN SizeClasses[CHOOSE k \in 1 .. Len(SizeClasses) :
         n <= SizeClasses[k] /\ \A m \in 1 .. (k - 1) : n > SizeClasses[m]]
  ELSE n

\* cap of append(s[:oldCap], make([]byte, newLen-oldCap)...) for newLen > oldCap
\* (oldCap < 256: the runtime doubles, or takes newLen if that is more, and
\* rounds up to a size class).
AppendCap(oldCap, newLen) ==
  RoundUpSize(IF newLen > 2 * oldCap THEN newLen ELSE 2 * oldCap)

\* Grow that forgets to append: the slice is only resliced to length 0.
GrowNoAppend(s, min) == [len |-> 0, cap |-> s.cap]

\* Grow(s, min): len 0; cap kept when min <= cap, else the cap append gives.
Grow(s, min) ==
  IF min < s.cap THEN [len |-> 0, cap |-> s.cap]
  ELSE IF min = s.cap THEN [len |-> 0, cap |-> s.cap]
  ELSE [len |-> 0, cap |-> AppendCap(s.cap, min)]

\* an allocation through append, which rounds the capacity up to a size class
makeRoundedBytes(c) == [len |-> 0, cap |-> IF c = 0 THEN 0 ELSE AppendCap(0, c)]

\* makeSizedBytes(c): make([]byte, 0, c)
makeSizedBytes(c) == [len |-> 0, cap |-> c]

\* a Get that hands out a Bytes and leaves it in the pool
PoolTakeKeep(fl, i, id) == fl

\* p.pool.Get() handing out Bytes id of pool i: the pool holds it no longer
PoolTake(fl, i, id) == [fl EXCEPT ![i] = @ \ {id}]

\* a Put whose Bytes the free-list loses
PoolPushLost(fl, i, id) == fl

\* p.pool.Put(b) on pool i
PoolPush(fl, i, id) == [fl EXCEPT ![i] = @ \cup {id}]

\* the bin resolved by capacity instead of length
BinOfCap(s) == findPool(s.cap)

\* BucketPooler.Put: idx, _ := g.pool.findPool(len(b.B))
BinOf(s) == findPool(s.len)

\* a Put that resolves the bucket by length instead of capacity
BucketOfLen(s) == findPool(s.len)

\* BucketPool.Put: _, pool := p.findPool(cap(b.B))
BucketOf(s) == findPool(s.cap)

NoBuf == [len |-> 0, cap |-> 0]

\* rounding that takes every half away from zero
RoundHalfUp(num, den) ==
  LET a == IF num < 0 THEN -num ELSE num
      m == (2 * a + den) \div (2 * den)
  IN IF num < 0 THEN -m ELSE m

\* math.RoundToEven(num/den) for den > 0
RoundHalfEven(num, den) ==
  LET a == IF num < 0 THEN -num ELSE num
      q == a \div den
      r == a % den
      m == IF 2 * r < den THEN q
           ELSE IF 2 * r > den THEN q + 1
           ELSE IF q % 2 = 0 THEN q ELSE q + 1
  IN IF num < 0 THEN -m ELSE m

\* reducePuts: the value that replaces a bin's put counter v
Decayed(v) == Min2(RoundHalfEven(v * DecayNum, DecayDen), MaxPoolPuts)

\* an add() that makes room by dropping the newest sample
AddOverDropNewest(s, v) ==
  Append(IF Len(s) > OversKeep THEN SubSeq(s, 1, Len(s) - 1) ELSE s, v)

\* add() of over(): keep at most OversKeep + 1 samples, the oldest dropped first
AddOver(s, v) == Append(IF Len(s) > OversKeep THEN Tail(s) ELSE s, v)

ZeroBin == [puts |-> 0, hits |-> 0, hitsLookahead |-> 0,
            misses |-> 0, missesLookahead |-> 0]

\* the BucketPoolStats that Stats() starts from, less its constant fields
ZeroStats == [Overs |-> 0, GetOvers |-> <<>>, PutOvers |-> <<>>,
              Hits |-> 0, Misses |-> 0, Buckets |-> <<>>]

ZeroCall == [op |-> "", p |-> 0, c |-> 0, idx |-> -1, bin |-> -1, d |-> 0,
             i |-> 0, b |-> 0, got |-> -1, inc |-> 0, v |-> 0, j |-> 0,
             best |-> 0, maxPuts |-> -1, reset |-> FALSE,
             callsSum |-> 0, newDef |-> 0, newMax |-> 0, ps |-> ZeroStats]

GetOps == {"GetGrown", "GetFilled", "Get", "SGetGrown", "SGetFilled", "SGet",
           "DGetGrown", "DGetFilled", "DGet"}
PutOps == {"Put", "PPut"}

\* the Bytes some goroutine, caller or free-list still refers to
UsedIds ==
  ({held[t] : t \in Threads} \cup {call[t].b : t \in Threads}
     \cup UNION {freelist[i] : i \in Idx} \cup pool) \ {0}

\* the Bytes a new allocation yields: one that nothing refers to
NewId == CHOOSE id \in Ids \ UsedIds : \A o \in Ids \ UsedIds : id <= o

\* get calls that have not got their Bytes yet
Pending == {t \in Threads : call[t].op \in GetOps /\ call[t].b = 0}

\* what a caller may have made of the slice of the Bytes it puts back:
\* resliced to any length, or replaced by make([]byte, n)
CallerSlices(s) ==
  {[len |-> l, cap |-> s.cap] : l \in 0 .. s.cap}
    \cup {[len |-> n, cap |-> n] : n \in 0 .. MaxReq}

\* ---- the dynamic pool's constants
minBitSize == 6
steps == 20
minSize == 2 ^ minBitSize
calibrateCallsThreshold == 42000
\* maxPercentile = 0.95
maxPercentileNum == 95
maxPercentileDen == 100

Steps == 0 .. (steps - 1)
Impls == {"bucket", "sync", "dynamic"}

\* no round trip under way
NoRound == [stage |-> 0, n |-> 0, b |-> 0, cap |-> 0]

NoCalls == [i \in Steps |-> 0]

\* Pooler(options): every bin zero, puts at the start of the ramp
NewPoolers ==
  /\ bins = [p \in Poolers |-> [i \in Idx |-> ZeroBin]]
  /\ puts = [p \in Poolers |-> RampStart]

\* the poolers after the ramp and ChooseInc-1 more Puts, all of Bytes the
\* caller made itself with a length of the first bucket (each ramp Put
\* decayed the bin back to 0, the last Put counted 1), the free-lists
\* emptied by the garbage collector since: the next Put is one that
\* recomputes and resets puts
UsedPoolers ==
  /\ bins = [p \in Poolers |->
              [i \in Idx |-> IF i = 0 THEN [ZeroBin EXCEPT !.puts = 1]
                             ELSE ZeroBin]]
  /\ puts = [p \in Poolers |-> ChooseInc - 1]

\* the arguments of BucketPool.Pooler() left unset
NoOptions == [ChooseInc |-> 0, DecayNum |-> 0, DecayDen |-> 1,
              MaxPoolPuts |-> 0, BinChecks |-> 0]

\* no size generator and no constructor has been called
NoGen == [fn |-> "", st |-> "", min |-> 0, max |-> 0, n |-> 0, arg |-> <<>>,
          opt |-> NoOptions, s |-> 0, sizes |-> <<>>, msg |-> "", by |-> "",
          pooler |-> NoOptions, slice |-> NoBuf, out |-> NoBuf]

\* no syncPool is in use
NoRel == [free |-> <<>>, owner |-> <<>>, B |-> <<>>, held |-> {}, live |-> {},
          op |-> "", b |-> 0, p |-> 0, n |-> 0]

\* no v2 BucketPool is in use
NoV2 == [chooseInc |-> 0, puts |-> 0, n |-> 0, st |-> "", inc |-> 0,
         chose |-> {}]

\* ---- initial state: NewBucketFull(Sizes); nothing in flight, nothing pooled
InitState ==
  /\ pc = [t \in Threads |-> "idle"]
  /\ call = [t \in Threads |-> ZeroCall]
  /\ held = [t \in Threads |-> 0]
  /\ bufs = [id \in Ids |-> NoBuf]
  /\ freelist = [i \in Idx |-> {}]
  /\ hits = [i \in Idx |-> 0]
  /\ misses = [i \in Idx |-> 0]
  /\ overs = 0
  /\ oversLock = FALSE
  /\ getOvers = <<>>
  /\ putOvers = <<>>
  /\ defIdx = [p \in Poolers |-> 0]
  /\ ops = 0
  /\ err = ""
  /\ pool = {}
  /\ calibrating = 0
  /\ defaultSize = 0
  /\ maxSize = 0
  /\ callSizes = <<>>
  /\ rt = NoRound
  /\ overCalls = 0
  /\ gets = [p \in Poolers |-> 0]

\* the pool is made already: no generator or constructor call is under way
InitBucket == InitState /\ gen = NoGen /\ rel = NoRel /\ v2pool = NoV2

\* a bucket pool with poolers, new or used
Init ==
  /\ InitBucket /\ impl = "bucket" /\ calls = NoCalls
  /\ NewPoolers \/ UsedPoolers

\* a new bucket pool
InitPool == InitBucket /\ impl = "bucket" /\ calls = NoCalls /\ NewPoolers

\* NewSync()
InitSync == InitBucket /\ impl = "sync" /\ calls = NoCalls /\ NewPoolers

\* NewDynamic(): new, or after calibrateCallsThreshold Puts of short slices
\* (the next one calibrates) with its sync.Pool emptied by the garbage
\* collector since
InitDynamic ==
  /\ InitBucket /\ impl = "dynamic" /\ NewPoolers
  /\ calls \in {NoCalls, [NoCalls EXCEPT ![0] = calibrateCallsThreshold]}

\* a bucket pool with poolers, new or used, after every goroutine has
\* called GetGrown(Sizes[0]) and missed: each holds a Bytes of the first
\* bucket
InitHeld ==
  /\ pc = [t \in Threads |-> "idle"]
  /\ call = [t \in Threads |-> ZeroCall]
  /\ held = [t \in Threads |-> t]
  /\ bufs = [id \in Ids |-> IF id \in Threads THEN [len |-> 0, cap |-> Size(0)]
                            ELSE NoBuf]
  /\ freelist = [i \in Idx |-> {}]
  /\ hits = [i \in Idx |-> 0]
  /\ misses = [i \in Idx |-> IF i = 0 THEN Cardinality(Threads) ELSE 0]
  /\ overs = 0
  /\ oversLock = FALSE
  /\ getOvers = <<>>
  /\ putOvers = <<>>
  /\ defIdx = [p \in Poolers |-> 0]
  /\ ops = 0
  /\ err = ""
  /\ pool = {}
  /\ calibrating = 0
  /\ defaultSize = 0
  /\ maxSize = 0
  /\ callSizes = <<>>
  /\ rt = NoRound
  /\ overCalls = 0
  /\ gets = [p \in Poolers |-> 0]
  /\ v2pool = NoV2
  /\ gen = NoGen /\ rel = NoRel
  /\ impl = "bucket" /\ calls = NoCalls
  /\ NewPoolers \/ UsedPoolers

\* any of the pools
InitImpl == Init \/ InitSync \/ InitDynamic

\* ---- starting a call

CanStart(t) == pc[t] = "idle" /\ err = ""

CanGet(t) ==
  CanStart(t) /\ held[t] = 0
    /\ Cardinality(UsedIds) + Cardinality(Pending) < MaxBufs

\* BucketPool.GetGrown(c) / BucketPooler.GetGrown(c): findPool
CallGetGrown(t, c) ==
  /\ CanGet(t)
  /\ call' = [call EXCEPT ![t] = [ZeroCall EXCEPT !.op = "GetGrown", !.c = c,
                                                 !.idx = findPool(c)]]
  /\ pc' = [pc EXCEPT ![t] = IF findPool(c) = -1 THEN "over_add" ELSE "sp_get"]
  /\ ops' = ops + 1
  /\ UNCHANGED <<held, bufs, poolVars, overVars, poolerVars, err>>
  /\ rt' = NoRound
  /\ overCalls' = overCalls + (IF c > MaxSize THEN 1 ELSE 0)
  /\ UNCHANGED <<impl, pool, dynVars, gen, rel, gets, v2pool>>

\* BucketPool.GetFilled(length) / BucketPooler.GetFilled(length): findPool
CallGetFilled(t, c) ==
  /\ CanGet(t)
  /\ call' = [call EXCEPT ![t] = [ZeroCall EXCEPT !.op = "GetFilled", !.c = c,
                                                 !.idx = findPool(c)]]
  /\ pc' = [pc EXCEPT ![t] = IF findPool(c) = -1 THEN "over_add" ELSE "sp_get"]
  /\ ops' = ops + 1
  /\ UNCHANGED <<held, bufs, poolVars, overVars, poolerVars, err>>
  /\ rt' = IF rt.stage = 2 /\ c = rt.n THEN [rt EXCEPT !.stage = 3]
           ELSE NoRound
  /\ overCalls' = overCalls + (IF c > MaxSize THEN 1 ELSE 0)
  /\ UNCHANGED <<impl, pool, dynVars, gen, rel, gets, v2pool>>

\* BucketPooler.Get()
CallGet(t, p) ==
  /\ CanGet(t)
  /\ call' = [call EXCEPT ![t] = [ZeroCall EXCEPT !.op = "Get", !.p = p]]
  /\ pc' = [pc EXCEPT ![t] = "g_load"]
  /\ ops' = ops + 1
  /\ UNCHANGED <<held, bufs, poolVars, overVars, poolerVars, err>>
  /\ rt' = NoRound
  /\ UNCHANGED implVars

\* BucketPool.Put(b), b non-nil with slice s: findPool(cap(b.B))
CallPut(t, s) ==
  /\ CanStart(t) /\ held[t] # 0
  /\ s \in CallerSlices(bufs[held[t]])
  /\ bufs' = [bufs EXCEPT ![held[t]] = s]
  /\ held' = [held EXCEPT ![t] = 0]
  /\ call' = [call EXCEPT ![t] = [ZeroCall EXCEPT !.op = "Put", !.b = held[t],
                                     !.c = s.len, !.idx = BucketOf(s)]]
  /\ pc' = [pc EXCEPT ![t] = IF BucketOf(s) = -1 THEN "over_add" ELSE "sp_put"]
  /\ ops' = ops + 1
  /\ UNCHANGED <<poolVars, overVars, poolerVars, err>>
  /\ rt' = IF /\ rt.stage = 1 /\ held[t] = rt.b
              /\ s = [len |-> rt.n, cap |-> rt.cap]
           THEN [rt EXCEPT !.stage = 2] ELSE NoRound
  /\ overCalls' = overCalls + (IF s.cap > MaxSize THEN 1 ELSE 0)
  /\ UNCHANGED <<impl, pool, dynVars, gen, rel, gets, v2pool>>

\* a Put that counts a length beyond the buckets in the last bin
CallPPutLastBin(t, p, s) ==
  /\ CanStart(t) /\ held[t] # 0
  /\ s \in CallerSlices(bufs[held[t]])
  /\ bufs' = [bufs EXCEPT ![held[t]] = s]
  /\ held' = [held EXCEPT ![t] = 0]
  /\ call' = [call EXCEPT ![t] = [ZeroCall EXCEPT !.op = "PPut", !.p = p,
                                     !.b = held[t], !.c = s.len,
                                     !.bin = IF BinOf(s) # -1 THEN BinOf(s)
                                             ELSE N - 1,
                                     !.idx = BucketOf(s)]]
  /\ pc' = [pc EXCEPT ![t] = "pp_binadd"]
  /\ ops' = ops + 1
  /\ UNCHANGED <<poolVars, overVars, poolerVars, err>>
  /\ rt' = NoRound
  /\ overCalls' = overCalls + (IF s.cap > MaxSize THEN 1 ELSE 0)
  /\ UNCHANGED <<impl, pool, dynVars, gen, rel, gets, v2pool>>

\* BucketPooler.Put(b), b non-nil with slice s: findPool(len(b.B)); the
\* deferred BucketPool.Put runs last and resolves by cap(b.B)
CallPPut(t, p, s) ==
  /\ CanStart(t) /\ held[t] # 0
  /\ s \in CallerSlices(bufs[held[t]])
  /\ bufs' = [bufs EXCEPT ![held[t]] = s]
  /\ held' = [held EXCEPT ![t] = 0]
  /\ call' = [call EXCEPT ![t] = [ZeroCall EXCEPT !.op = "PPut", !.p = p,
                                     !.b = held[t], !.c = s.len,
                                     !.bin = BinOf(s), !.idx = BucketOf(s)]]
  /\ pc' = [pc EXCEPT ![t] =
              IF BinOf(s) # -1 THEN "pp_binadd"
              ELSE IF BucketOf(s) = -1 THEN "over_add" ELSE "sp_put"]
  /\ ops' = ops + 1
  /\ UNCHANGED <<poolVars, overVars, poolerVars, err>>
  /\ rt' = NoRound
  /\ overCalls' = overCalls + (IF s.cap > MaxSize THEN 1 ELSE 0)
  /\ UNCHANGED <<impl, pool, dynVars, gen, rel, gets, v2pool>>

\* BucketPool.Put(nil): returns at once
CallPutNil(t) ==
  /\ CanStart(t)
  /\ call' = [call EXCEPT ![t] = [ZeroCall EXCEPT !.op = "PutNil"]]
  /\ pc' = [pc EXCEPT ![t] = "ret"]
  /\ ops' = ops + 1
  /\ UNCHANGED <<held, bufs, poolVars, overVars, poolerVars, err>>
  /\ rt' = NoRound
  /\ UNCHANGED implVars

\* a Put that counts before it looks at b
CallPPutNilCounted(t, p) ==
  /\ CanStart(t)
  /\ call' = [call EXCEPT ![t] = [ZeroCall EXCEPT !.op = "PPutNil", !.p = p]]
  /\ puts' = [puts EXCEPT ![p] = @ + 1]
  /\ pc' = [pc EXCEPT ![t] = "ret"]
  /\ ops' = ops + 1
  /\ UNCHANGED <<held, bufs, poolVars, overVars, bins, defIdx, err>>
  /\ rt' = NoRound
  /\ UNCHANGED implVars

\* BucketPooler.Put(nil): returns at once
CallPPutNil(t, p) ==
  /\ CanStart(t)
  /\ call' = [call EXCEPT ![t] = [ZeroCall EXCEPT !.op = "PPutNil", !.p = p]]
  /\ pc' = [pc EXCEPT ![t] = "ret"]
  /\ ops' = ops + 1
  /\ UNCHANGED <<held, bufs, poolVars, overVars, poolerVars, err>>
  /\ rt' = NoRound
  /\ UNCHANGED implVars

\* ---- BucketPool.over(over, isPut)

\* an over() that counts only when the sample lock is free
OverAddIfFree(t) ==
  /\ pc[t] = "over_add" /\ err = ""
  /\ overs' = IF oversLock THEN overs ELSE overs + 1
  /\ pc' = [pc EXCEPT ![t] = "over_swap"]
  /\ UNCHANGED <<call, held, bufs, poolVars, oversLock, getOvers, putOvers,
                 poolerVars, ops, err>>
  /\ UNCHANGED <<implVars, rt>>

\* p.overs.Add(1)
OverAdd(t) ==
  /\ pc[t] = "over_add" /\ err = ""
  /\ overs' = overs + 1
  /\ pc' = [pc EXCEPT ![t] = "over_swap"]
  /\ UNCHANGED <<call, held, bufs, poolVars, oversLock, getOvers, putOvers,
                 poolerVars, ops, err>>
  /\ UNCHANGED <<implVars, rt>>

\* an over() that records whether or not it got the lock
OverSwapAlways(t) ==
  /\ pc[t] = "over_swap" /\ err = ""
  /\ oversLock' = TRUE
  /\ pc' = [pc EXCEPT ![t] = "over_append"]
  /\ UNCHANGED <<call, held, bufs, poolVars, overs, getOvers, putOvers,
                 poolerVars, ops, err>>
  /\ UNCHANGED <<implVars, rt>>

\* if p.oversLock.Swap(true) { return }
OverSwap(t) ==
  /\ pc[t] = "over_swap" /\ err = ""
  /\ oversLock' = TRUE
  /\ pc' = [pc EXCEPT ![t] = IF oversLock THEN "over_done" ELSE "over_append"]
  /\ UNCHANGED <<call, held, bufs, poolVars, overs, getOvers, putOvers,
                 poolerVars, ops, err>>
  /\ UNCHANGED <<implVars, rt>>

\* p.putOvers = add(p.putOvers, over) or p.getOvers = add(p.getOvers, over)
OverAppend(t) ==
  /\ pc[t] = "over_append" /\ err = ""
  /\ IF call[t].op \in PutOps
     THEN /\ putOvers' = AddOver(putOvers, bufs[call[t].b].cap)
          /\ UNCHANGED getOvers
     ELSE /\ getOvers' = AddOver(getOvers, call[t].c)
          /\ UNCHANGED putOvers
  /\ pc' = [pc EXCEPT ![t] = "over_unlock"]
  /\ UNCHANGED <<call, held, bufs, poolVars, overs, oversLock, poolerVars, ops, err>>
  /\ UNCHANGED <<implVars, rt>>

\* defer p.oversLock.Store(false)
OverUnlock(t) ==
  /\ pc[t] = "over_unlock" /\ err = ""
  /\ oversLock' = FALSE
  /\ pc' = [pc EXCEPT ![t] = "over_done"]
  /\ UNCHANGED <<call, held, bufs, poolVars, overs, getOvers, putOvers,
                 poolerVars, ops, err>>
  /\ UNCHANGED <<implVars, rt>>

\* after over(): GetGrown/GetFilled return makeSizedBytes(c) (GetFilled
\* resliced to length c); Put returns and the Bytes is left to the collector
OverDone(t) ==
  /\ pc[t] = "over_done" /\ err = ""
  /\ IF call[t].op \in PutOps
     THEN UNCHANGED <<call, held, bufs>>
     ELSE /\ bufs' = [bufs EXCEPT ![NewId] =
                        [makeSizedBytes(call[t].c) EXCEPT
                           !.len = IF call[t].op = "GetFilled" THEN call[t].c ELSE 0]]
          /\ call' = [call EXCEPT ![t].b = NewId]
          /\ held' = [held EXCEPT ![t] = NewId]
  /\ pc' = [pc EXCEPT ![t] = "ret"]
  /\ UNCHANGED <<poolVars, overVars, poolerVars, ops, err>>
  /\ UNCHANGED <<implVars, rt>>

\* ---- sizedPool.get(c) as called by GetGrown / GetFilled

\* getNoAlloc: b, _ := p.pool.Get().(*Bytes).  A sync.Pool hands out any
\* of its items, or none although it holds some.
SpGet(t) ==
  /\ pc[t] = "sp_get" /\ err = ""
  /\ IF call[t].c > Size(call[t].idx)
     THEN /\ err' = "unexpected c"
          /\ pc' = [pc EXCEPT ![t] = "panic"]
          /\ UNCHANGED <<call, freelist>>
     ELSE /\ UNCHANGED err
          /\ \/ \E id \in freelist[call[t].idx] :
                  /\ freelist' = PoolTake(freelist, call[t].idx, id)
                  /\ call' = [call EXCEPT ![t].b = id, ![t].got = bufs[id].cap]
                  /\ pc' = [pc EXCEPT ![t] = "sp_hit"]
             \/ /\ pc' = [pc EXCEPT ![t] = "sp_alloc"]
                /\ UNCHANGED <<call, freelist>>
  /\ UNCHANGED <<held, bufs, hits, misses, overVars, poolerVars, ops>>
  /\ UNCHANGED <<implVars, rt>>

\* the slice after b.B = b.B[:length] (GetFilled); GetGrown leaves len 0
Filled(t, s) == IF call[t].op = "GetFilled" THEN [s EXCEPT !.len = call[t].c] ELSE s

\* getNoAlloc on a hit: p.hits.Add(1); b.B = Grow(b.B, c); return b
SpHit(t) ==
  /\ pc[t] = "sp_hit" /\ err = ""
  /\ hits' = [hits EXCEPT ![call[t].idx] = @ + 1]
  /\ IF call[t].op = "GetFilled" /\ call[t].c > Grow(bufs[call[t].b], call[t].c).cap
     THEN /\ err' = "slice bounds out of range"
          /\ pc' = [pc EXCEPT ![t] = "panic"]
          /\ UNCHANGED <<bufs, held>>
     ELSE /\ bufs' = [bufs EXCEPT ![call[t].b] = Filled(t, Grow(@, call[t].c))]
          /\ held' = [held EXCEPT ![t] = call[t].b]
          /\ pc' = [pc EXCEPT ![t] = "ret"]
          /\ UNCHANGED err
  /\ UNCHANGED <<call, freelist, misses, overVars, poolerVars, ops>>
  /\ UNCHANGED <<implVars, rt>>

\* allocate without the c <= 0 case
AllocCapAsked(i, c) == c

\* an allocate that always makes a Bytes of the bucket's size
AllocCapBucket(i, c) == Size(i)

\* allocate(c): makeSizedBytes(p.size) if c <= 0, else makeSizedBytes(c)
AllocCap(i, c) == IF c <= 0 THEN Size(i) ELSE c

\* an allocate that does not count the miss
SpAllocUncounted(t) ==
  /\ pc[t] = "sp_alloc" /\ err = ""
  /\ bufs' = [bufs EXCEPT ![NewId] =
                Filled(t, makeSizedBytes(AllocCap(call[t].idx, call[t].c)))]
  /\ call' = [call EXCEPT ![t].b = NewId]
  /\ held' = [held EXCEPT ![t] = NewId]
  /\ pc' = [pc EXCEPT ![t] = "ret"]
  /\ UNCHANGED <<freelist, hits, misses, overVars, poolerVars, ops, err>>
  /\ UNCHANGED <<implVars, rt>>

\* allocate(c) on a miss: make the Bytes; p.misses.Add(1); return b
SpAlloc(t) ==
  /\ pc[t] = "sp_alloc" /\ err = ""
  /\ bufs' = [bufs EXCEPT ![NewId] =
                Filled(t, makeSizedBytes(AllocCap(call[t].idx, call[t].c)))]
  /\ misses' = [misses EXCEPT ![call[t].idx] = @ + 1]
  /\ call' = [call EXCEPT ![t].b = NewId]
  /\ held' = [held EXCEPT ![t] = NewId]
  /\ pc' = [pc EXCEPT ![t] = "ret"]
  /\ UNCHANGED <<freelist, hits, overVars, poolerVars, ops, err>>
  /\ UNCHANGED <<implVars, rt>>

\* ---- sizedPool.put(b) as called by BucketPool.Put

\* if cap(b.B) > p.size { panic }; b.B = b.B[:0]; p.pool.Put(b)
SpPut(t) ==
  /\ pc[t] = "sp_put" /\ err = ""
  /\ IF bufs[call[t].b].cap > Size(call[t].idx)
     THEN /\ err' = "unexpected cap"
          /\ pc' = [pc EXCEPT ![t] = "panic"]
          /\ UNCHANGED <<bufs, freelist>>
     ELSE /\ bufs' = [bufs EXCEPT ![call[t].b].len = 0]
          /\ freelist' = PoolPush(freelist, call[t].idx, call[t].b)
          /\ pc' = [pc EXCEPT ![t] = "ret"]
          /\ UNCHANGED err
  /\ UNCHANGED <<call, held, hits, misses, overVars, poolerVars, ops>>
  /\ UNCHANGED <<implVars, rt>>

\* ---- BucketPooler.Get()

\* defIdx := g.defIdx.Load()
GLoad(t) ==
  /\ pc[t] = "g_load" /\ err = ""
  /\ call' = [call EXCEPT ![t].d = defIdx[call[t].p], ![t].i = 0]
  /\ pc' = [pc EXCEPT ![t] = "g_scan"]
  /\ UNCHANGED <<held, bufs, poolVars, overVars, poolerVars, ops, err>>
  /\ UNCHANGED <<implVars, rt>>

\* a loop that runs one index too far
InWindowOff(d, i) == i <= BinChecks /\ d + i < N

\* the loop goes on to index d+i: i < binChecks and d+i < len(g.bins)
InWindow(d, i) == i < BinChecks /\ d + i < N

\* b := g.pool.pools[idx].getNoAlloc(0) at idx = defIdx + i; on nil the
\* loop continues, and ends in allocate when the window is used up
GScan(t) ==
  LET idx == call[t].d + call[t].i IN
  /\ pc[t] = "g_scan" /\ err = ""
  /\ \/ \E id \in freelist[idx] :
          /\ freelist' = PoolTake(freelist, idx, id)
          /\ call' = [call EXCEPT ![t].b = id, ![t].got = bufs[id].cap,
                                  ![t].idx = idx]
          /\ pc' = [pc EXCEPT ![t] = "g_sphit"]
     \/ /\ call' = [call EXCEPT ![t].i = @ + 1]
        /\ pc' = [pc EXCEPT ![t] =
                    IF InWindow(call[t].d, call[t].i + 1) THEN "g_scan" ELSE "g_alloc"]
        /\ UNCHANGED freelist
  /\ UNCHANGED <<held, bufs, hits, misses, overVars, poolerVars, ops, err>>
  /\ UNCHANGED <<implVars, rt>>

\* getNoAlloc(0) on a hit: p.hits.Add(1); b.B = Grow(b.B, 0)
GSpHit(t) ==
  /\ pc[t] = "g_sphit" /\ err = ""
  /\ hits' = [hits EXCEPT ![call[t].idx] = @ + 1]
  /\ bufs' = [bufs EXCEPT ![call[t].b] = Grow(@, 0)]
  /\ pc' = [pc EXCEPT ![t] = IF call[t].i > 0 THEN "g_hla" ELSE "g_bhit"]
  /\ UNCHANGED <<call, held, freelist, misses, overVars, poolerVars, ops, err>>
  /\ UNCHANGED <<implVars, rt>>

\* bin.hitsLookahead.Add(1)
GHitLa(t) ==
  /\ pc[t] = "g_hla" /\ err = ""
  /\ bins' = [bins EXCEPT ![call[t].p][call[t].idx].hitsLookahead = @ + 1]
  /\ pc' = [pc EXCEPT ![t] = "g_mla"]
  /\ UNCHANGED <<call, held, bufs, poolVars, overVars, defIdx, puts, ops, err>>
  /\ UNCHANGED <<implVars, rt>>

\* a lookahead miss credited to the bin the Bytes was found in
GMissLaFound(t) ==
  /\ pc[t] = "g_mla" /\ err = ""
  /\ bins' = [bins EXCEPT ![call[t].p][call[t].idx].missesLookahead = @ + 1]
  /\ pc' = [pc EXCEPT ![t] = "g_bhit"]
  /\ UNCHANGED <<call, held, bufs, poolVars, overVars, defIdx, puts, ops, err>>
  /\ UNCHANGED <<implVars, rt>>

\* g.bins[defIdx].missesLookahead.Add(1)
GMissLa(t) ==
  /\ pc[t] = "g_mla" /\ err = ""
  /\ bins' = [bins EXCEPT ![call[t].p][call[t].d].missesLookahead = @ + 1]
  /\ pc' = [pc EXCEPT ![t] = "g_bhit"]
  /\ UNCHANGED <<call, held, bufs, poolVars, overVars, defIdx, puts, ops, err>>
  /\ UNCHANGED <<implVars, rt>>

\* bin.hits.Add(1); return b
GBinHit(t) ==
  /\ pc[t] = "g_bhit" /\ err = ""
  /\ bins' = [bins EXCEPT ![call[t].p][call[t].idx].hits = @ + 1]
  /\ held' = [held EXCEPT ![t] = call[t].b]
  /\ pc' = [pc EXCEPT ![t] = "ret"]
  /\ UNCHANGED <<call, bufs, poolVars, overVars, defIdx, puts, ops, err>>
  /\ UNCHANGED <<implVars, rt>>

\* b := g.pool.pools[defIdx].allocate(0): make the Bytes; p.misses.Add(1)
GAlloc(t) ==
  /\ pc[t] = "g_alloc" /\ err = ""
  /\ bufs' = [bufs EXCEPT ![NewId] = makeSizedBytes(AllocCap(call[t].d, 0))]
  /\ misses' = [misses EXCEPT ![call[t].d] = @ + 1]
  /\ call' = [call EXCEPT ![t].b = NewId, ![t].idx = call[t].d]
  /\ pc' = [pc EXCEPT ![t] = "g_bmiss"]
  /\ UNCHANGED <<held, freelist, hits, overVars, poolerVars, ops, err>>
  /\ UNCHANGED <<implVars, rt>>

\* a Get() that returns the allocated Bytes without counting the miss
GBinMissUncounted(t) ==
  /\ pc[t] = "g_bmiss" /\ err = ""
  /\ held' = [held EXCEPT ![t] = call[t].b]
  /\ pc' = [pc EXCEPT ![t] = "ret"]
  /\ UNCHANGED <<call, bufs, poolVars, overVars, bins, defIdx, puts, ops, err>>
  /\ UNCHANGED <<implVars, rt>>

\* g.bins[defIdx].misses.Add(1); return b
GBinMiss(t) ==
  /\ pc[t] = "g_bmiss" /\ err = ""
  /\ bins' = [bins EXCEPT ![call[t].p][call[t].d].misses = @ + 1]
  /\ held' = [held EXCEPT ![t] = call[t].b]
  /\ pc' = [pc EXCEPT ![t] = "ret"]
  /\ UNCHANGED <<call, bufs, poolVars, overVars, defIdx, puts, ops, err>>
  /\ UNCHANGED <<implVars, rt>>

\* ---- BucketPooler.Put(b)

\* where the deferred g.pool.Put(b) starts: over() or sizedPool.put
PutTail(t) == IF call[t].idx = -1 THEN "over_add" ELSE "sp_put"

\* a Put that counts the bin of the capacity instead of the length
PBinAddCap(t) ==
  /\ pc[t] = "pp_binadd" /\ err = ""
  /\ bins' = [bins EXCEPT ![call[t].p][Max2(call[t].idx, 0)].puts = @ + 1]
  /\ pc' = [pc EXCEPT ![t] = "pp_inc"]
  /\ UNCHANGED <<call, held, bufs, poolVars, overVars, defIdx, puts, ops, err>>
  /\ UNCHANGED <<implVars, rt>>

\* g.bins[idx].puts.Add(1)
PBinAdd(t) ==
  /\ pc[t] = "pp_binadd" /\ err = ""
  /\ bins' = [bins EXCEPT ![call[t].p][call[t].bin].puts = @ + 1]
  /\ pc' = [pc EXCEPT ![t] = "pp_inc"]
  /\ UNCHANGED <<call, held, bufs, poolVars, overVars, defIdx, puts, ops, err>>
  /\ UNCHANGED <<implVars, rt>>

\* a ramp that stops one Put early
RecomputeShortRamp(inc) == inc < 0 \/ inc = ChooseInc

\* a Put that recomputes at every count from chooseInc on
RecomputeFrom(inc) == inc <= 0 \/ inc >= ChooseInc

\* the Put must recompute: the ramp (inc <= 0) or inc == chooseInc
Recompute(inc) == inc <= 0 \/ inc = ChooseInc

\* inc := g.puts.Add(1); return unless the ramp or inc == chooseInc
PInc(t) ==
  LET inc == puts[call[t].p] + 1 IN
  /\ pc[t] = "pp_inc" /\ err = ""
  /\ puts' = [puts EXCEPT ![call[t].p] = inc]
  /\ call' = [call EXCEPT ![t].inc = inc, ![t].reset = (inc > 0),
                          ![t].j = 0, ![t].maxPuts = -1, ![t].best = 0]
  /\ pc' = [pc EXCEPT ![t] = IF Recompute(inc) THEN "pp_choose" ELSE PutTail(t)]
  /\ UNCHANGED <<held, bufs, poolVars, overVars, bins, defIdx, ops, err>>
  /\ UNCHANGED <<implVars, rt>>

\* a comparison that lets a later bin with the same count win
BetterOrSame(v, maxPuts) == v >= maxPuts

\* chooseDefPool: if v > maxPuts
Better(v, maxPuts) == v > maxPuts

\* chooseDefPool, one bin: v := bin.puts.Load(); if v > maxPuts { ... }
PChoose(t) ==
  LET v == bins[call[t].p][call[t].j].puts
      better == Better(v, call[t].maxPuts) IN
  /\ pc[t] = "pp_choose" /\ err = ""
  /\ call' = [call EXCEPT ![t].maxPuts = IF better THEN v ELSE @,
                          ![t].best = IF better THEN call[t].j ELSE @,
                          ![t].j = @ + 1]
  /\ pc' = [pc EXCEPT ![t] = IF call[t].j + 1 < N THEN "pp_choose" ELSE "pp_store"]
  /\ UNCHANGED <<held, bufs, poolVars, overVars, poolerVars, ops, err>>
  /\ UNCHANGED <<implVars, rt>>

\* a chooseDefPool that stores the loop index it ended with
PStoreLoopIndex(t) ==
  /\ pc[t] = "pp_store" /\ err = ""
  /\ defIdx' = [defIdx EXCEPT ![call[t].p] = call[t].j]
  /\ call' = [call EXCEPT ![t].j = 0]
  /\ pc' = [pc EXCEPT ![t] = "pp_rload"]
  /\ UNCHANGED <<held, bufs, poolVars, overVars, bins, puts, ops, err>>
  /\ UNCHANGED <<implVars, rt>>

\* g.defIdx.Store(int64(bestPool))
PStore(t) ==
  /\ pc[t] = "pp_store" /\ err = ""
  /\ defIdx' = [defIdx EXCEPT ![call[t].p] = call[t].best]
  /\ call' = [call EXCEPT ![t].j = 0]
  /\ pc' = [pc EXCEPT ![t] = "pp_rload"]
  /\ UNCHANGED <<held, bufs, poolVars, overVars, bins, puts, ops, err>>
  /\ UNCHANGED <<implVars, rt>>

\* reducePuts, one bin: v := bin.puts.Load()
PRLoad(t) ==
  /\ pc[t] = "pp_rload" /\ err = ""
  /\ call' = [call EXCEPT ![t].v = bins[call[t].p][call[t].j].puts]
  /\ pc' = [pc EXCEPT ![t] = "pp_rcas"]
  /\ UNCHANGED <<held, bufs, poolVars, overVars, poolerVars, ops, err>>
  /\ UNCHANGED <<implVars, rt>>

\* a reducePuts that stores the decayed value whatever the bin holds now
PRCasBlind(t) ==
  /\ pc[t] = "pp_rcas" /\ err = ""
  /\ bins' = [bins EXCEPT ![call[t].p][call[t].j].puts = Decayed(call[t].v)]
  /\ call' = [call EXCEPT ![t].j = @ + 1]
  /\ pc' = [pc EXCEPT ![t] =
              IF call[t].j + 1 < N THEN "pp_rload"
              ELSE IF call[t].reset THEN "pp_reset" ELSE PutTail(t)]
  /\ UNCHANGED <<held, bufs, poolVars, overVars, defIdx, puts, ops, err>>
  /\ UNCHANGED <<implVars, rt>>

\* a CompareAndSwap that fails whatever the bin holds
PRCasFails(t) ==
  /\ pc[t] = "pp_rcas" /\ err = ""
  /\ pc' = [pc EXCEPT ![t] = "pp_rload"]
  /\ UNCHANGED <<bins, call>>
  /\ UNCHANGED <<held, bufs, poolVars, overVars, defIdx, puts, ops, err>>
  /\ UNCHANGED <<implVars, rt>>

\* reducePuts, one bin: if bin.puts.CompareAndSwap(v, v2) { break }, else
\* load again; after the last bin the deferred g.puts.Store(0) and Put run
PRCas(t) ==
  /\ pc[t] = "pp_rcas" /\ err = ""
  /\ IF bins[call[t].p][call[t].j].puts = call[t].v
     THEN /\ bins' = [bins EXCEPT ![call[t].p][call[t].j].puts = Decayed(call[t].v)]
          /\ call' = [call EXCEPT ![t].j = @ + 1]
          /\ pc' = [pc EXCEPT ![t] =
                      IF call[t].j + 1 < N THEN "pp_rload"
                      ELSE IF call[t].reset THEN "pp_reset" ELSE PutTail(t)]
     ELSE /\ pc' = [pc EXCEPT ![t] = "pp_rload"]
          /\ UNCHANGED <<bins, call>>
  /\ UNCHANGED <<held, bufs, poolVars, overVars, defIdx, puts, ops, err>>
  /\ UNCHANGED <<implVars, rt>>

\* a reset that reaches the put counter of every pooler of the pool
PResetAll(t) ==
  /\ pc[t] = "pp_reset" /\ err = ""
  /\ puts' = [p \in Poolers |-> 0]
  /\ pc' = [pc EXCEPT ![t] = PutTail(t)]
  /\ UNCHANGED <<call, held, bufs, poolVars, overVars, bins, defIdx, ops, err>>
  /\ UNCHANGED <<implVars, rt>>

\* defer g.puts.Store(0)
PReset(t) ==
  /\ pc[t] = "pp_reset" /\ err = ""
  /\ puts' = [puts EXCEPT ![call[t].p] = 0]
  /\ pc' = [pc EXCEPT ![t] = PutTail(t)]
  /\ UNCHANGED <<call, held, bufs, poolVars, overVars, bins, defIdx, ops, err>>
  /\ UNCHANGED <<implVars, rt>>

\* ---- the call returns to its caller; a Bytes nothing refers to any more
\* is garbage
Return(t) ==
  LET b == call[t].b
      dropped == /\ b # 0 /\ b \notin pool
                 /\ \A u \in Threads : held[u] # b
                 /\ \A u \in Threads \ {t} : call[u].b # b
                 /\ \A i \in Idx : b \notin freelist[i] IN
  /\ pc[t] = "ret" /\ err = ""
  /\ call' = [call EXCEPT ![t] = ZeroCall]
  /\ bufs' = IF dropped THEN [bufs EXCEPT ![b] = NoBuf] ELSE bufs
  /\ pc' = [pc EXCEPT ![t] = "idle"]
  /\ UNCHANGED <<held, poolVars, overVars, poolerVars, ops, err>>
  /\ rt' = IF call[t].op = "GetFilled" /\ call[t].idx # -1
           THEN [stage |-> 1, n |-> call[t].c, b |-> call[t].b,
                 cap |-> bufs[call[t].b].cap]
           ELSE rt
  /\ gets' = IF call[t].op = "Get" THEN [gets EXCEPT ![call[t].p] = @ + 1]
             ELSE gets
  /\ UNCHANGED <<impl, pool, dynVars, overCalls, gen, rel, v2pool>>

\* ---- BucketPool.Stats()

\* Stats(): enters the busy loop on the sample lock
CallStats(t) ==
  /\ CanStart(t)
  /\ call' = [call EXCEPT ![t] = [ZeroCall EXCEPT !.op = "Stats"]]
  /\ pc' = [pc EXCEPT ![t] = "st_swap"]
  /\ ops' = ops + 1
  /\ UNCHANGED <<held, bufs, poolVars, overVars, poolerVars, err>>
  /\ rt' = NoRound
  /\ UNCHANGED implVars

\* a defer that leaves the lock held
StKeepLock(t) ==
  /\ pc[t] = "st_unlock" /\ err = ""
  /\ pc' = [pc EXCEPT ![t] = "ret"]
  /\ UNCHANGED <<call, held, bufs, poolVars, overVars, poolerVars, ops, err>>
  /\ UNCHANGED <<implVars, rt>>

\* a Stats() that goes on whether or not the lock was held
StSwapNoWait(t) ==
  /\ pc[t] = "st_swap" /\ err = ""
  /\ oversLock' = TRUE
  /\ pc' = [pc EXCEPT ![t] = "st_overs"]
  /\ UNCHANGED <<call, held, bufs, poolVars, overs, getOvers, putOvers,
                 poolerVars, ops, err>>
  /\ UNCHANGED <<implVars, rt>>

\* for p.oversLock.Swap(true) { }: spins while the lock was held
StSwap(t) ==
  /\ pc[t] = "st_swap" /\ err = ""
  /\ oversLock' = TRUE
  /\ pc' = [pc EXCEPT ![t] = IF oversLock THEN "st_swap" ELSE "st_overs"]
  /\ UNCHANGED <<call, held, bufs, poolVars, overs, getOvers, putOvers,
                 poolerVars, ops, err>>
  /\ UNCHANGED <<implVars, rt>>

\* Overs: p.overs.Load()
StOvers(t) ==
  /\ pc[t] = "st_overs" /\ err = ""
  /\ call' = [call EXCEPT ![t].ps.Overs = overs]
  /\ pc' = [pc EXCEPT ![t] = "st_clone"]
  /\ UNCHANGED <<held, bufs, poolVars, overVars, poolerVars, ops, err>>
  /\ UNCHANGED <<implVars, rt>>

\* GetOvers: slices.Clone(p.getOvers), PutOvers: slices.Clone(p.putOvers)
StClone(t) ==
  /\ pc[t] = "st_clone" /\ err = ""
  /\ call' = [call EXCEPT ![t].ps.GetOvers = getOvers,
                          ![t].ps.PutOvers = putOvers, ![t].j = 0]
  /\ pc' = [pc EXCEPT ![t] = "st_hits"]
  /\ UNCHANGED <<held, bufs, poolVars, overVars, poolerVars, ops, err>>
  /\ UNCHANGED <<implVars, rt>>

\* for _, sp := range p.pools: Hits: sp.hits.Load()
StHits(t) ==
  /\ pc[t] = "st_hits" /\ err = ""
  /\ call' = [call EXCEPT ![t].v = hits[call[t].j]]
  /\ pc' = [pc EXCEPT ![t] = "st_misses"]
  /\ UNCHANGED <<held, bufs, poolVars, overVars, poolerVars, ops, err>>
  /\ UNCHANGED <<implVars, rt>>

\* Misses: sp.misses.Load(); a bucket with no hit and no miss is left out,
\* the others are summed and appended to ps.Buckets
StMisses(t) ==
  LET j == call[t].j
      h == call[t].v
      m == misses[j]
      s == [Size |-> Size(j), Hits |-> h, Misses |-> m] IN
  /\ pc[t] = "st_misses" /\ err = ""
  /\ call' = [call EXCEPT
                ![t].ps = IF h <= 0 /\ m <= 0 THEN @
                          ELSE [@ EXCEPT !.Hits = @ + h, !.Misses = @ + m,
                                         !.Buckets = Append(@, s)],
                ![t].j = j + 1]
  /\ pc' = [pc EXCEPT ![t] = IF j + 1 < N THEN "st_hits" ELSE "st_unlock"]
  /\ UNCHANGED <<held, bufs, poolVars, overVars, poolerVars, ops, err>>
  /\ UNCHANGED <<implVars, rt>>

\* defer p.oversLock.Store(false); return ps
StUnlock(t) ==
  /\ pc[t] = "st_unlock" /\ err = ""
  /\ oversLock' = FALSE
  /\ pc' = [pc EXCEPT ![t] = "ret"]
  /\ UNCHANGED <<call, held, bufs, poolVars, overs, getOvers, putOvers,
                 poolerVars, ops, err>>
  /\ UNCHANGED <<implVars, rt>>

\* ---- syncPool (src/sync.go)

\* Grow[T] of src/pool.go: len 0; cap kept when min <= cap, else append's
GrowT(s, min) ==
  IF min <= s.cap THEN [len |-> 0, cap |-> s.cap]
  ELSE [len |-> 0, cap |-> AppendCap(s.cap, min)]

\* syncPool.Get / GetGrown(c) / GetFilled(len) start with p.p.Get()
CallSync(t, op, c) ==
  /\ CanGet(t)
  /\ call' = [call EXCEPT ![t] = [ZeroCall EXCEPT !.op = op, !.c = c]]
  /\ pc' = [pc EXCEPT ![t] = "sy_get"]
  /\ ops' = ops + 1
  /\ UNCHANGED <<held, bufs, bucketVars, implVars, err>>
  /\ UNCHANGED rt

\* what the get call makes of the slice s it found: Get leaves it,
\* GetGrown grows it, GetFilled grows it and reslices it to [:len]
SyncSlice(op, s, c) ==
  IF op = "SGet" THEN s
  ELSE IF op = "SGetGrown" THEN GrowT(s, c)
  ELSE [len |-> c, cap |-> GrowT(s, c).cap]

\* v := p.p.Get(): a pooled Bytes, or nil and then &Bytes{pool: p}
SyGet(t) ==
  /\ pc[t] = "sy_get" /\ err = ""
  /\ \E id \in pool \cup {0} :
       LET b == IF id = 0 THEN NewId ELSE id
           s == SyncSlice(call[t].op, bufs[b], call[t].c) IN
       /\ pool' = pool \ {id}
       /\ call' = [call EXCEPT ![t].b = b,
                               ![t].got = IF id = 0 THEN -1 ELSE bufs[id].cap]
       /\ IF s.len > s.cap
          THEN /\ err' = "slice bounds out of range"
               /\ pc' = [pc EXCEPT ![t] = "panic"]
               /\ UNCHANGED <<bufs, held>>
          ELSE /\ bufs' = [bufs EXCEPT ![b] = s]
               /\ held' = [held EXCEPT ![t] = b]
               /\ pc' = [pc EXCEPT ![t] = "ret"]
               /\ UNCHANGED err
  /\ UNCHANGED <<bucketVars, impl, dynVars, ops>>
  /\ UNCHANGED rt

\* b.Release() of a Bytes with slice s: b.pool.put(b)
CallRelease(t, s) ==
  /\ CanStart(t) /\ held[t] # 0
  /\ s \in CallerSlices(bufs[held[t]])
  /\ bufs' = [bufs EXCEPT ![held[t]] = s]
  /\ held' = [held EXCEPT ![t] = 0]
  /\ call' = [call EXCEPT ![t] = [ZeroCall EXCEPT !.op = "Release",
                                     !.b = held[t], !.c = s.len]]
  /\ pc' = [pc EXCEPT ![t] = "sy_put"]
  /\ ops' = ops + 1
  /\ UNCHANGED <<bucketVars, implVars, err>>
  /\ UNCHANGED rt

\* Release of a nil *Bytes: returns at once
CallReleaseNil(t) ==
  /\ CanStart(t)
  /\ call' = [call EXCEPT ![t] = [ZeroCall EXCEPT !.op = "ReleaseNil"]]
  /\ pc' = [pc EXCEPT ![t] = "ret"]
  /\ ops' = ops + 1
  /\ UNCHANGED <<held, bufs, bucketVars, implVars, err>>
  /\ UNCHANGED rt

\* syncPool.put: b.B = b.B[:0]; p.p.Put(b)
SyPut(t) ==
  /\ pc[t] = "sy_put" /\ err = ""
  /\ bufs' = [bufs EXCEPT ![call[t].b].len = 0]
  /\ pool' = pool \cup {call[t].b}
  /\ pc' = [pc EXCEPT ![t] = "ret"]
  /\ UNCHANGED <<call, held, bucketVars, impl, dynVars, ops, err>>
  /\ UNCHANGED rt

\* ---- dynamicPool (the pool after valyala/bytebufferpool)

\* grow that returns s as it is
growNoAppend(s, n) == s

\* grow(s, n): len kept; cap kept when n <= cap, else the cap append gives
grow(s, n) ==
  IF n - s.cap <= 0 THEN s
  ELSE [len |-> s.len, cap |-> AppendCap(s.cap, n)]

\* the number of times m can be shifted right before it is 0
RECURSIVE BitLen(_)
BitLen(m) == IF m <= 0 THEN 0 ELSE 1 + BitLen(m \div 2)

\* index(n): n--; n >>= minBitSize; count the bits; at most steps-1
index(n) ==
  LET idx == BitLen((n - 1) \div (2 ^ minBitSize)) IN
  IF idx >= steps THEN steps - 1 ELSE idx

\* dynamicPool.Get / GetGrown(c) / GetFilled(len) start with p.pool.Get()
CallDyn(t, op, c) ==
  /\ CanGet(t)
  /\ call' = [call EXCEPT ![t] = [ZeroCall EXCEPT !.op = op, !.c = c]]
  /\ pc' = [pc EXCEPT ![t] = "d_get"]
  /\ ops' = ops + 1
  /\ UNCHANGED <<held, bufs, bucketVars, implVars, err>>
  /\ UNCHANGED rt

\* what the get call makes of the slice s it found
DynSlice(op, s, c) ==
  IF op = "DGet" THEN s
  ELSE IF op = "DGetGrown" THEN grow(s, c)
  ELSE [len |-> c, cap |-> grow(s, c).cap]

\* the caller gets Bytes b with the slice its call makes of it
DynHandOut(t, b, s0) ==
  LET s == DynSlice(call[t].op, s0, call[t].c) IN
  IF s.len > s.cap
  THEN /\ err' = "slice bounds out of range"
       /\ pc' = [pc EXCEPT ![t] = "panic"]
       /\ UNCHANGED <<bufs, held>>
  ELSE /\ bufs' = [bufs EXCEPT ![b] = s]
       /\ held' = [held EXCEPT ![t] = b]
       /\ pc' = [pc EXCEPT ![t] = "ret"]
       /\ UNCHANGED err

\* v := p.pool.Get(): a pooled Bytes, or nil
DGet(t) ==
  /\ pc[t] = "d_get" /\ err = ""
  /\ \/ \E id \in pool :
          /\ pool' = pool \ {id}
          /\ call' = [call EXCEPT ![t].b = id, ![t].got = bufs[id].cap]
          /\ DynHandOut(t, id, bufs[id])
     \/ /\ pc' = [pc EXCEPT ![t] = "d_alloc"]
        /\ UNCHANGED <<pool, call, bufs, held, err>>
  /\ UNCHANGED <<bucketVars, impl, dynVars, ops>>
  /\ UNCHANGED rt

\* &Bytes{B: make([]byte, 0, atomic.LoadUint64(&p.defaultSize))}
DAlloc(t) ==
  /\ pc[t] = "d_alloc" /\ err = ""
  /\ call' = [call EXCEPT ![t].b = NewId]
  /\ DynHandOut(t, NewId, [len |-> 0, cap |-> defaultSize])
  /\ UNCHANGED <<bucketVars, implVars, ops>>
  /\ UNCHANGED rt

\* dynamicPool.Put(b), b non-nil with slice s: idx := index(len(b.B))
CallDPut(t, s) ==
  /\ CanStart(t) /\ held[t] # 0
  /\ s \in CallerSlices(bufs[held[t]])
  /\ bufs' = [bufs EXCEPT ![held[t]] = s]
  /\ held' = [held EXCEPT ![t] = 0]
  /\ call' = [call EXCEPT ![t] = [ZeroCall EXCEPT !.op = "DPut", !.b = held[t],
                                     !.c = s.len, !.idx = index(s.len)]]
  /\ pc' = [pc EXCEPT ![t] = "d_add"]
  /\ ops' = ops + 1
  /\ UNCHANGED <<bucketVars, implVars, err>>
  /\ UNCHANGED rt

\* dynamicPool.Put(nil): returns at once
CallDPutNil(t) ==
  /\ CanStart(t)
  /\ call' = [call EXCEPT ![t] = [ZeroCall EXCEPT !.op = "DPutNil"]]
  /\ pc' = [pc EXCEPT ![t] = "ret"]
  /\ ops' = ops + 1
  /\ UNCHANGED <<held, bufs, bucketVars, implVars, err>>
  /\ UNCHANGED rt

\* if atomic.AddUint64(&p.calls[idx], 1) > calibrateCallsThreshold
DAdd(t) ==
  /\ pc[t] = "d_add" /\ err = ""
  /\ calls' = [calls EXCEPT ![call[t].idx] = @ + 1]
  /\ pc' = [pc EXCEPT ![t] = IF calls[call[t].idx] + 1 > calibrateCallsThreshold
                             THEN "d_cas" ELSE "d_max"]
  /\ UNCHANGED <<call, held, bufs, bucketVars, impl, pool, calibrating,
                 defaultSize, maxSize, callSizes, ops, err>>
  /\ UNCHANGED rt

\* a calibrate that goes on whatever the flag holds
DCasAlways(t) ==
  /\ pc[t] = "d_cas" /\ err = ""
  /\ calibrating' = 1
  /\ callSizes' = <<>>
  /\ call' = [call EXCEPT ![t].i = 0, ![t].callsSum = 0]
  /\ pc' = [pc EXCEPT ![t] = "d_swap"]
  /\ UNCHANGED <<held, bufs, bucketVars, impl, pool, calls, defaultSize,
                 maxSize, ops, err>>
  /\ UNCHANGED rt

\* calibrate: if !CompareAndSwapUint64(&p.calibrating, 0, 1) { return };
\* p.callSizes = p.callSizes[:0]; var callsSum uint64
DCas(t) ==
  /\ pc[t] = "d_cas" /\ err = ""
  /\ IF calibrating = 0
     THEN /\ calibrating' = 1
          /\ callSizes' = <<>>
          /\ call' = [call EXCEPT ![t].i = 0, ![t].callsSum = 0]
          /\ pc' = [pc EXCEPT ![t] = "d_swap"]
     ELSE /\ pc' = [pc EXCEPT ![t] = "d_max"]
          /\ UNCHANGED <<calibrating, callSizes, call>>
  /\ UNCHANGED <<held, bufs, bucketVars, impl, pool, calls, defaultSize,
                 maxSize, ops, err>>
  /\ UNCHANGED rt

\* calls := atomic.SwapUint64(&p.calls[i], 0); callsSum += calls;
\* p.callSizes = append(p.callSizes, callSize{calls, minSize << i})
DSwap(t) ==
  /\ pc[t] = "d_swap" /\ err = ""
  /\ calls' = [calls EXCEPT ![call[t].i] = 0]
  /\ callSizes' = Append(callSizes, [calls |-> calls[call[t].i],
                                      size |-> minSize * 2 ^ call[t].i])
  /\ call' = [call EXCEPT ![t].i = @ + 1,
                          ![t].callsSum = @ + calls[call[t].i]]
  /\ pc' = [pc EXCEPT ![t] = IF call[t].i + 1 < steps THEN "d_swap"
                             ELSE "d_sort"]
  /\ UNCHANGED <<held, bufs, bucketVars, impl, pool, calibrating, defaultSize,
                 maxSize, ops, err>>
  /\ UNCHANGED rt

\* the entries of callSizes that counted calls, and those that did not
Called == {k \in 1 .. Len(callSizes) : callSizes[k].calls > 0}
Uncalled == {k \in 1 .. Len(callSizes) : callSizes[k].calls = 0}

\* sort.Sort(p.callSizes) with Less = more calls first: the orders it can
\* leave the entries with calls in (entries with equal calls in any order);
\* the entries without calls follow them
Sorted ==
  {o \in [1 .. Cardinality(Called) -> Called] :
     /\ \A i, j \in DOMAIN o : i # j => o[i] # o[j]
     /\ \A i, j \in DOMAIN o :
          i < j => callSizes[o[i]].calls >= callSizes[o[j]].calls}

\* maxSum := uint64(float64(callsSum) * maxPercentile)
MaxSum(callsSum) == (callsSum * maxPercentileNum) \div maxPercentileDen

\* the second loop of calibrate over the entries o[i..]: stops as soon as
\* callsSum > maxSum, else adds the entry's calls and raises maxSize
RECURSIVE Walk(_, _, _, _, _)
Walk(o, i, sum, mx, maxSum) ==
  IF i > Cardinality(DOMAIN o) \/ sum > maxSum
  THEN [sum |-> sum, max |-> mx]
  ELSE Walk(o, i + 1, sum + callSizes[o[i]].calls,
            Max2(mx, callSizes[o[i]].size), maxSum)

\* the loop goes on over the entries without calls when it has not stopped
\* before them; they add nothing to callsSum, so it then reads them all
WalkAll(o, def, maxSum) ==
  LET w == Walk(o, 1, 0, def, maxSum) IN
  IF w.sum > maxSum \/ Uncalled = {} THEN w.max
  ELSE LET big == CHOOSE k \in Uncalled :
                    \A m \in Uncalled : callSizes[m].size <= callSizes[k].size
       IN Max2(w.max, callSizes[big].size)

\* sort.Sort(p.callSizes); defaultSize := p.callSizes[0].size; the loop
DSort(t) ==
  /\ pc[t] = "d_sort" /\ err = ""
  /\ \E o \in Sorted :
       \E first \in (IF Called # {} THEN {o[1]} ELSE Uncalled) :
         call' = [call EXCEPT
                    ![t].newDef = callSizes[first].size,
                    ![t].newMax = WalkAll(o, callSizes[first].size,
                                          MaxSum(call[t].callsSum))]
  /\ pc' = [pc EXCEPT ![t] = "d_storedef"]
  /\ UNCHANGED <<held, bufs, bucketVars, implVars, ops, err>>
  /\ UNCHANGED rt

\* atomic.StoreUint64(&p.defaultSize, defaultSize)
DStoreDef(t) ==
  /\ pc[t] = "d_storedef" /\ err = ""
  /\ defaultSize' = call[t].newDef
  /\ pc' = [pc EXCEPT ![t] = "d_storemax"]
  /\ UNCHANGED <<call, held, bufs, bucketVars, impl, pool, calls, calibrating,
                 maxSize, callSizes, ops, err>>
  /\ UNCHANGED rt

\* atomic.StoreUint64(&p.maxSize, maxSize)
DStoreMax(t) ==
  /\ pc[t] = "d_storemax" /\ err = ""
  /\ maxSize' = call[t].newMax
  /\ pc' = [pc EXCEPT ![t] = "d_unlock"]
  /\ UNCHANGED <<call, held, bufs, bucketVars, impl, pool, calls, calibrating,
                 defaultSize, callSizes, ops, err>>
  /\ UNCHANGED rt

\* atomic.StoreUint64(&p.calibrating, 0)
DUnlock(t) ==
  /\ pc[t] = "d_unlock" /\ err = ""
  /\ calibrating' = 0
  /\ pc' = [pc EXCEPT ![t] = "d_max"]
  /\ UNCHANGED <<call, held, bufs, bucketVars, impl, pool, calls, defaultSize,
                 maxSize, callSizes, ops, err>>
  /\ UNCHANGED rt

\* maxSize := int(atomic.LoadUint64(&p.maxSize));
\* if maxSize == 0 || cap(b.B) <= maxSize
DMax(t) ==
  /\ pc[t] = "d_max" /\ err = ""
  /\ pc' = [pc EXCEPT ![t] =
              IF maxSize = 0 \/ bufs[call[t].b].cap <= maxSize
              THEN "d_put" ELSE "ret"]
  /\ UNCHANGED <<call, held, bufs, bucketVars, implVars, ops, err>>
  /\ UNCHANGED rt

\* b.B = b.B[:0]; p.pool.Put(b)
DPut(t) ==
  /\ pc[t] = "d_put" /\ err = ""
  /\ bufs' = [bufs EXCEPT ![call[t].b].len = 0]
  /\ pool' = pool \cup {call[t].b}
  /\ pc' = [pc EXCEPT ![t] = "ret"]
  /\ UNCHANGED <<call, held, bucketVars, impl, dynVars, ops, err>>
  /\ UNCHANGED rt

\* ---- next-state relation

\* the calls on the BucketPool itself
PoolCall(t) ==
  \/ \E c \in 0 .. MaxReq : CallGetGrown(t, c)
  \/ \E c \in 0 .. MaxReq : CallGetFilled(t, c)
  \/ held[t] # 0 /\ \E s \in CallerSlices(bufs[held[t]]) : CallPut(t, s)
  \/ CallPutNil(t)

\* the calls on a BucketPooler
PoolerCall(t) ==
  \/ \E p \in Front : CallGet(t, p)
  \/ held[t] # 0 /\ \E p \in Front :
                      \E s \in CallerSlices(bufs[held[t]]) : CallPPut(t, p, s)
  \/ \E p \in Front : CallPPutNil(t, p)

\* the slices a caller Puts whose length is a bucket size
CountedSlices(s) == {x \in CallerSlices(s) : x.len \in {Size(i) : i \in Idx}}

\* one goroutine uses one BucketPooler: Get, then Put of a slice whose
\* length is within bucket range, again and again
SchedCall(t) ==
  \/ \E p \in Front : CallGet(t, p)
  \/ held[t] # 0 /\ \E p \in Front :
                      \E s \in CountedSlices(bufs[held[t]]) : CallPPut(t, p, s)

\* the steps inside BucketPool calls, and the return of any call
PoolStep(t) ==
  \/ OverAdd(t) \/ OverSwap(t) \/ OverAppend(t) \/ OverUnlock(t) \/ OverDone(t)
  \/ SpGet(t) \/ SpHit(t) \/ SpAlloc(t) \/ SpPut(t)
  \/ Return(t)

\* the steps inside BucketPooler.Get and BucketPooler.Put
PoolerStep(t) ==
  \/ GLoad(t) \/ GScan(t) \/ GSpHit(t) \/ GHitLa(t) \/ GMissLa(t) \/ GBinHit(t)
  \/ GAlloc(t) \/ GBinMiss(t)
  \/ PBinAdd(t) \/ PInc(t) \/ PChoose(t) \/ PStore(t) \/ PRLoad(t) \/ PRCas(t)
  \/ PReset(t)

\* goroutines interleave freely
Next ==
  \E t \in Threads :
    \/ ops < MaxOps /\ (PoolCall(t) \/ PoolerCall(t))
    \/ PoolStep(t) \/ PoolerStep(t)

Spec == Init /\ [][Next]_vars

\* no call is running
Quiet == \A t \in Threads : pc[t] = "idle"

\* callers that hold nothing are interchangeable: the lowest one calls
Canon(t) == held[t] # 0 \/ \A u \in Threads : u < t => held[u] # 0

\* one call at a time: a call starts only when no other call is running
SeqNext ==
  \E t \in Threads :
    \/ ops < MaxSeqOps /\ Quiet /\ Canon(t) /\ (PoolCall(t) \/ PoolerCall(t))
    \/ PoolStep(t) \/ PoolerStep(t)

SpecSeq == Init /\ [][SeqNext]_vars

\* one call at a time, on the BucketPool alone
PoolNext ==
  \E t \in Threads :
    \/ ops < MaxPoolOps /\ Quiet /\ Canon(t) /\ PoolCall(t)
    \/ PoolStep(t)

SpecPool == InitPool /\ [][PoolNext]_vars

\* the calls on any of the BucketPoolers of the pool
SharedCall(t) ==
  \/ \E p \in Poolers : CallGet(t, p)
  \/ held[t] # 0 /\ \E p \in Poolers :
                      \E s \in CallerSlices(bufs[held[t]]) : CallPPut(t, p, s)
  \/ \E p \in Poolers : CallPPutNil(t, p)

\* goroutines that hold a Bytes each use the poolers of one pool and
\* interleave freely
SharedNext ==
  \E t \in Threads :
    \/ ops < MaxSharedOps /\ SharedCall(t)
    \/ OverAdd(t) \/ OverSwap(t) \/ OverAppend(t) \/ OverUnlock(t) \/ OverDone(t)
    \/ SpPut(t) \/ Return(t) \/ PoolerStep(t)

SpecShared == InitHeld /\ [][SharedNext]_vars

\* the slices a caller Puts whose length falls in bin ConvBin
SkewedSlices(s) == {x \in CallerSlices(s) : BinOf(x) = ConvBin}

\* one goroutine uses one BucketPooler, Get then Put; from call number
\* ConvFrom on, every Put has a length in bin ConvBin
ConvCall(t) ==
  \/ \E p \in Front : CallGet(t, p)
  \/ /\ ops < ConvFrom /\ held[t] # 0
     /\ \E p \in Front :
          \E s \in CountedSlices(bufs[held[t]]) : CallPPut(t, p, s)
  \/ /\ ops >= ConvFrom /\ held[t] # 0
     /\ \E p \in Front :
          \E s \in SkewedSlices(bufs[held[t]]) : CallPPut(t, p, s)

\* a pooler, new or used, under a stream of Puts that becomes skewed
ConvNext ==
  \/ ops < MaxConvOps /\ ConvCall(1)
  \/ SpPut(1) \/ Return(1) \/ PoolerStep(1)

SpecConv == Init /\ [][ConvNext]_vars

\* sizes beyond the largest bucket
OverSizes == {MaxSize + 1, MaxSize + 2}

\* one goroutine asks a new BucketPool for a Bytes larger than every bucket
\* and Puts it back as it got it, again and again
OverCall(t) ==
  \/ \E c \in OverSizes : CallGetGrown(t, c)
  \/ held[t] # 0 /\ CallPut(t, bufs[held[t]])

OverNext ==
  \/ ops < MaxOverOps /\ OverCall(1)
  \/ OverAdd(1) \/ OverSwap(1) \/ OverAppend(1) \/ OverUnlock(1) \/ OverDone(1)
  \/ Return(1)

SpecOver == InitPool /\ [][OverNext]_vars

\* the calls of goroutines that get a Bytes of the largest bucket or one
\* beyond it, Put it back as they got it, and ask for the statistics
LockCall(t) ==
  \/ \E c \in {MaxSize, MaxSize + 1} : CallGetGrown(t, c)
  \/ held[t] # 0 /\ CallPut(t, bufs[held[t]])
  \/ CallStats(t)

\* the steps of goroutine t inside its call
LockStep(t) ==
  \/ OverAdd(t) \/ OverSwap(t) \/ OverAppend(t) \/ OverUnlock(t) \/ OverDone(t)
  \/ SpGet(t) \/ SpHit(t) \/ SpAlloc(t) \/ SpPut(t)
  \/ StSwap(t) \/ StOvers(t) \/ StClone(t) \/ StHits(t) \/ StMisses(t)
  \/ StUnlock(t)
  \/ Return(t)

LockNext ==
  \E t \in Threads :
    \/ ops < MaxLockOps /\ LockCall(t)
    \/ LockStep(t)

\* goroutines interleave freely, and the scheduler leaves no goroutine that
\* can take a step waiting for ever
SpecLock ==
  /\ InitPool /\ [][LockNext]_vars
  /\ \A t \in Threads : WF_vars(LockStep(t))

\* a new pooler used by the first goroutine alone
SchedNext ==
  \/ ops < MaxSchedOps /\ SchedCall(1)
  \/ SpPut(1) \/ Return(1) \/ PoolerStep(1)

SpecSched == InitPool /\ [][SchedNext]_vars

\* the calls on a syncPool and on the Bytes it hands out
SyncCall(t) ==
  \/ \E c \in 0 .. MaxReq : CallSync(t, "SGetGrown", c)
  \/ \E c \in 0 .. MaxReq : CallSync(t, "SGetFilled", c)
  \/ CallSync(t, "SGet", 0)
  \/ held[t] # 0 /\ \E s \in CallerSlices(bufs[held[t]]) : CallRelease(t, s)
  \/ CallReleaseNil(t)

\* the calls on a dynamicPool
DynCall(t) ==
  \/ \E c \in 0 .. MaxReq : CallDyn(t, "DGetGrown", c)
  \/ \E c \in 0 .. MaxReq : CallDyn(t, "DGetFilled", c)
  \/ CallDyn(t, "DGet", 0)
  \/ held[t] # 0 /\ \E s \in CallerSlices(bufs[held[t]]) : CallDPut(t, s)
  \/ CallDPutNil(t)

\* any of the pools: the bucket pool with its poolers and the dynamicPool
\* take one call at a time, the syncPool's goroutines interleave freely
ImplNext ==
  \E t \in Threads :
    \/ impl = "bucket" /\ ops < MaxSeqOps /\ Quiet /\ Canon(t)
         /\ (PoolCall(t) \/ PoolerCall(t))
    \/ impl = "sync" /\ ops < MaxImplOps /\ SyncCall(t)
    \/ impl = "dynamic" /\ ops < MaxImplOps /\ Quiet /\ Canon(t)
         /\ DynCall(t)
    \/ PoolStep(t) \/ PoolerStep(t) \/ SyGet(t) \/ SyPut(t)
    \/ DGet(t) \/ DAlloc(t) \/ DAdd(t) \/ DCas(t) \/ DSwap(t) \/ DSort(t)
    \/ DStoreDef(t) \/ DStoreMax(t) \/ DUnlock(t) \/ DMax(t) \/ DPut(t)

SpecImpl == InitImpl /\ [][ImplNext]_vars

\* ======================================================================
\* Claims

\* thread t's call has returned and its result is still on display
Returned(t, op) == pc[t] = "ret" /\ call[t].op = op

\* the Bytes thread t's call handed out, or took back
Result(t) == bufs[call[t].b]

\* the hit of t's call found a pooled Bytes whose cap was below the request
GrownHit(t) == call[t].got >= 0 /\ call[t].got < call[t].c

Working(u, id) ==
  call[u].b = id /\ (call[u].op \in GetOps \/ pc[u] # "ret")

\* C2: a Bytes handed out is owned by one caller alone until that caller
\* puts it back: no two callers hold the same Bytes, no call of another
\* goroutine works on it, and no free-list contains it; the same holds of a
\* Bytes a get has taken and not yet returned; and no Bytes is in two
\* free-lists.
C2_ExclusiveOwner ==
  /\ \A t \in Threads : held[t] # 0 =>
       /\ \A u \in Threads \ {t} : held[u] # held[t] /\ ~Working(u, held[t])
       /\ \A i \in Idx : held[t] \notin freelist[i]
  /\ \A t \in Threads : call[t].b # 0 /\ call[t].op \in GetOps =>
       /\ \A u \in Threads \ {t} : ~Working(u, call[t].b)
       /\ \A i \in Idx : call[t].b \notin freelist[i]
  /\ \A i, j \in Idx : i # j => freelist[i] \cap freelist[j] = {}

\* C2 witness: a Bytes that one goroutine released, whose Put has not yet
\* returned, is already held by another goroutine that got it from the pool.
C2_Witness ==
  \E t, u \in Threads :
    /\ t # u /\ held[t] # 0 /\ call[t].got >= 0
    /\ pc[u] = "ret" /\ call[u].op \in PutOps /\ call[u].b = held[t]

\* goroutine t takes the step
Moved(t) == pc'[t] # pc[t] \/ call'[t] # call[t]

\* the smallest bucket whose size is >= n; -1 when n exceeds them all
Covering(n) == {i \in Idx : n <= Size(i)}
Smallest(n) ==
  IF Covering(n) = {} THEN -1
  ELSE CHOOSE k \in Covering(n) : \A j \in Covering(n) : k <= j

SizedGets == {"GetGrown", "GetFilled"}

\* t's call is a GetGrown/GetFilled of a size above the largest bucket
OverGet(t) == call[t].op \in SizedGets /\ call[t].c > MaxSize

C4_Result ==
  \A t \in Threads :
    /\ pc[t] = "ret" /\ OverGet(t) =>
         /\ err = ""
         /\ call[t].got = -1 /\ held[t] = call[t].b
         /\ Result(t).cap = call[t].c
         /\ Result(t).len = (IF call[t].op = "GetFilled" THEN call[t].c ELSE 0)
         /\ \A i \in Idx : call[t].b \notin freelist[i]
         /\ \A u \in Threads \ {t} : held[u] # call[t].b
    /\ pc[t] = "panic" => ~OverGet(t)

C4_Effect ==
  \A t \in Threads :
    OverGet(t)' =>
      /\ UNCHANGED <<freelist, hits, misses>>
      /\ overs' = overs + (IF pc[t] = "over_add" THEN 1 ELSE 0)
      /\ pc'[t] = "over_add" => pc[t] = "idle"
      /\ pc[t] = "idle" => pc'[t] = "over_add"

\* C4: GetGrown(s)/GetFilled(s) with s above the largest bucket size does
\* not panic and returns a new Bytes that is in no free-list, of capacity
\* exactly s and length 0 (GetFilled: length s); the call adds exactly 1 to
\* the overflow counter (once, in its first step) and changes no free-list
\* and no hit or miss counter.
C4_OverflowGet == []C4_Result /\ [][C4_Effect]_vars

\* C4 witness: an overflowing GetFilled has returned while a free-list
\* holds a Bytes and the counters of a bucket are not zero.
C4_Witness ==
  \E t \in Threads :
    /\ Returned(t, "GetFilled") /\ OverGet(t)
    /\ \E i \in Idx : freelist[i] # {} /\ misses[i] > 0

\* C5: BucketPool.Put(b) of a non-nil b (also when BucketPooler.Put runs
\* it) leaves b, with length 0, in the free-list of the smallest bucket
\* whose size >= cap(b) and in no other; when cap(b) exceeds the largest
\* bucket size b is in no free-list and cap(b) is the last put-overflow
\* sample.
C5_PutByCap ==
  \A t \in Threads :
    pc[t] = "ret" /\ call[t].op \in PutOps =>
      LET b == call[t].b
          k == Smallest(bufs[b].cap) IN
      IF k # -1
      THEN /\ b \in freelist[k]
           /\ \A j \in Idx \ {k} : b \notin freelist[j]
           /\ bufs[b].len = 0
      ELSE /\ \A j \in Idx : b \notin freelist[j]
           /\ overs > 0
           /\ putOvers # <<>> /\ putOvers[Len(putOvers)] = bufs[b].cap

\* C5 witness: a Put has filed a Bytes whose length at the time of Put
\* belongs to a smaller bucket than its capacity.
C5_Witness ==
  \E t \in Threads :
    /\ Returned(t, "Put") /\ call[t].idx # -1
    /\ call[t].b \in freelist[call[t].idx]
    /\ Smallest(call[t].c) # -1 /\ Smallest(call[t].c) < call[t].idx

NilOps == {"PutNil", "PPutNil"}

C7_Frame ==
  \A t \in Threads :
    Moved(t) /\ (call[t].op \in NilOps \/ call'[t].op \in NilOps) =>
      /\ err' = "" /\ pc'[t] \in {"ret", "idle"}
      /\ UNCHANGED <<held, bufs, freelist, hits, misses, overs, oversLock,
                     getOvers, putOvers, bins, defIdx, puts>>

\* C7: Put(nil) on the BucketPool or on a BucketPooler returns at once
\* without a panic; the steps of the call change no counter, no bin, no put
\* counter, no default index, no overflow sample, no free-list and no Bytes.
C7_NilPut == [][C7_Frame]_vars

\* C7 witness: a BucketPooler.Put(nil) has returned on a pooler that has
\* counted puts before.
C7_Witness ==
  \E t \in Threads :
    Returned(t, "PPutNil") /\ puts[call[t].p] > RampStart

\* the last index of the window of a Get that read default index d
WindowEnd(d) == (IF d + BinChecks < N THEN d + BinChecks ELSE N) - 1

C8_Scan ==
  \A t \in Threads :
    call[t].op = "Get" =>
      /\ pc[t] = "g_scan" =>
           call[t].d <= call[t].d + call[t].i
             /\ call[t].d + call[t].i <= WindowEnd(call[t].d)
      /\ call[t].got >= 0 =>
           /\ call[t].idx = call[t].d + call[t].i
           /\ call[t].d <= call[t].idx /\ call[t].idx <= WindowEnd(call[t].d)
      /\ call[t].got = -1 /\ pc[t] \in {"g_alloc", "g_bmiss", "ret"} =>
           call[t].d + call[t].i = WindowEnd(call[t].d) + 1

C8_Order ==
  \A t \in Threads :
    Moved(t) /\ call'[t].op = "Get" =>
      /\ pc[t] = "g_load" => call'[t].d = defIdx[call[t].p] /\ call'[t].i = 0
      /\ pc[t] \notin {"idle", "g_load"} => call'[t].d = call[t].d
      /\ pc[t] # "idle" => call'[t].i \in {call[t].i, call[t].i + 1}
      /\ call'[t].i = call[t].i + 1 => pc[t] = "g_scan" /\ freelist' = freelist
      /\ \A k \in Idx : freelist'[k] # freelist[k] =>
           /\ k = call[t].d + call[t].i
           /\ freelist'[k] = freelist[k] \ {call'[t].b}
           /\ call'[t].b \in freelist[k]
      /\ call'[t].b # call[t].b /\ pc'[t] # "g_bmiss" => call'[t].got >= 0
      /\ pc'[t] = "g_bmiss" => call'[t].b \notin UsedIds

\* C8: BucketPooler.Get() reads the default index d once, then tries a
\* non-allocating fetch on the buckets d, d+1, ... in ascending order, never
\* below d and never past min(d+binChecks, number of buckets)-1; it returns
\* the Bytes of the first fetch that yields one, and allocates a new Bytes
\* only after the fetch on every bucket of that window yielded none.
C8_Lookahead == []C8_Scan /\ [][C8_Order]_vars

\* C8 witness: a Get has returned a Bytes it found one bucket after the
\* default bucket.
C8_Witness ==
  \E t \in Threads :
    Returned(t, "Get") /\ call[t].got >= 0 /\ call[t].i = 1

\* C9: BucketPooler.Get() returns length 0 and a capacity of at most the
\* largest bucket size: on a miss exactly the size of the default bucket it
\* read at the start of the call, on a hit in bucket i at most the size of
\* bucket i.
C9_GetCap ==
  \A t \in Threads :
    Returned(t, "Get") =>
      /\ Result(t).len = 0
      /\ Result(t).cap <= MaxSize
      /\ call[t].got = -1 => Result(t).cap = Size(call[t].d)
      /\ call[t].got >= 0 => Result(t).cap <= Size(call[t].idx)

\* C9 witness: a Get that missed has returned after another goroutine
\* changed the default index during the call.
C9_Witness ==
  \E t \in Threads :
    /\ Returned(t, "Get") /\ call[t].got = -1
    /\ defIdx[call[t].p] # call[t].d

C10_Bin ==
  \A t \in Threads :
    pc[t] = "pp_binadd" =>
      /\ call[t].op = "PPut"
      /\ call[t].bin = Smallest(bufs[call[t].b].len)

C10_Count ==
  /\ \A t \in Threads :
       Moved(t) =>
         /\ pc[t] = "pp_binadd" =>
              bins'[call[t].p][call[t].bin].puts
                = bins[call[t].p][call[t].bin].puts + 1
         /\ pc'[t] = "pp_binadd" => pc[t] = "idle"
         /\ pc[t] = "idle" /\ call'[t].op = "PPut"
              /\ Smallest(bufs'[call'[t].b].len) # -1 => pc'[t] = "pp_binadd"
         /\ pc[t] = "sp_put" /\ pc'[t] = "ret" =>
              call[t].b \in freelist'[Smallest(bufs[call[t].b].cap)]
  /\ \A p \in Poolers, k \in Idx :
       bins'[p][k].puts > bins[p][k].puts =>
         \E t \in Threads :
           Moved(t) /\ pc[t] = "pp_binadd" /\ call[t].p = p /\ call[t].bin = k

\* C10: BucketPooler.Put(b) with len(b) within bucket range adds exactly 1,
\* once, to the put counter of the bin of the smallest bucket whose size >=
\* len(b), the length b has when Put is called; no other step raises a put
\* counter; and the Bytes is released to the free-list of the smallest
\* bucket whose size >= cap(b), which may be another index.
C10_PutBinsByLen == []C10_Bin /\ [][C10_Count]_vars

\* C10 witness: a BucketPooler.Put has returned that counted one bin and
\* released the Bytes to the bucket of another index.
C10_Witness ==
  \E t \in Threads :
    /\ Returned(t, "PPut")
    /\ call[t].bin # -1 /\ call[t].idx # -1 /\ call[t].bin # call[t].idx
    /\ call[t].b \in freelist[call[t].idx]

GrownOps == {"GetGrown", "SGetGrown", "DGetGrown"}
FilledOps == {"GetFilled", "SGetFilled", "DGetFilled"}

\* a pooled slice was too short for the call and had to be grown
HadToGrow(t) == call[t].got >= 0 /\ call[t].got < call[t].c

\* C3: on the bucket pool and its poolers, on the syncPool and on the
\* dynamicPool, after any calls before it (releases of resliced and of
\* replaced slices among them), GetGrown(c) does not panic and returns
\* length 0 and capacity >= c, and GetFilled(c) does not panic and returns
\* length c and capacity >= c.
C3_LenAndCap ==
  \A t \in Threads :
    /\ pc[t] = "ret" /\ call[t].op \in GrownOps =>
         Result(t).len = 0 /\ Result(t).cap >= call[t].c
    /\ pc[t] = "ret" /\ call[t].op \in FilledOps =>
         Result(t).len = call[t].c /\ Result(t).cap >= call[t].c
    /\ pc[t] = "panic" => call[t].op \notin GrownOps \cup FilledOps

\* C3 witness: a GetFilled on the dynamicPool has returned a Bytes that was
\* pooled with too small a slice, after a calibration had set the sizes.
C3_Witness ==
  \E t \in Threads :
    /\ Returned(t, "DGetFilled") /\ HadToGrow(t)
    /\ defaultSize > 0

\* the second GetFilled(n) of a round trip has returned
RoundDone(t) == rt.stage = 3 /\ Returned(t, "GetFilled") /\ call[t].c = rt.n

\* the free-list gave nothing although it held a Bytes
Dropped(t) == call[t].got = -1 /\ freelist[call[t].idx] # {}

SameBytes(t) ==
  /\ call[t].got >= 0
  /\ call[t].b = rt.b
  /\ Result(t).cap = rt.cap
  /\ Result(t).len = rt.n

MaxBinPuts(p) ==
  CHOOSE v \in {bins[p][i].puts : i \in Idx} :
    \A i \in Idx : bins[p][i].puts <= v

\* the lowest index among the bins of pooler p that hold the highest counter
LowestMaxBin(p) ==
  CHOOSE i \in Idx :
    /\ bins[p][i].puts = MaxBinPuts(p)
    /\ \A k \in Idx : bins[p][k].puts = MaxBinPuts(p) => i <= k

NearestEven(r, v) ==
  LET d == 2 * r * DecayDen - 2 * v * DecayNum IN
  /\ -DecayDen <= d /\ d <= DecayDen
  /\ (d = DecayDen \/ d = -DecayDen) => r % 2 = 0

\* thread t's reducePuts replaces the counter of its current bin
Reduces(t) ==
  /\ pc[t] = "pp_rcas"
  /\ bins'[call[t].p][call[t].j].puts # bins[call[t].p][call[t].j].puts
     \/ call'[t].j = call[t].j + 1

\* C12: when one goroutine uses a pooler, reducePuts replaces the counter v
\* of each bin by min(r, maxPoolPuts) where r is v * decay rounded half to
\* even; the new counter is at most v and at most maxPoolPuts, the other
\* bins are left alone, and when reducePuts is over every bin of the pooler
\* is at most maxPoolPuts.
C12_ReducePuts ==
  [][\A t \in Threads :
       Reduces(t) =>
         LET p == call[t].p
             j == call[t].j
             v == bins[p][j].puts
             v2 == bins'[p][j].puts IN
         /\ \E r \in 0 .. v : NearestEven(r, v) /\ v2 = Min2(r, MaxPoolPuts)
         /\ v2 <= v /\ v2 <= MaxPoolPuts
         /\ \A i \in Idx \ {j} : bins'[p][i] = bins[p][i]
         /\ bins'[p][j] = [bins[p][j] EXCEPT !.puts = v2]
         /\ pc'[t] # "pp_rload" => \A i \in Idx : bins'[p][i].puts <= MaxPoolPuts]_vars

\* C12 witness: reducePuts has just replaced a counter whose rounded product
\* exceeds maxPoolPuts by maxPoolPuts.
C12_Witness ==
  \E t \in Threads :
    /\ call[t].op = "PPut" /\ pc[t] = "pp_rload" /\ call[t].j >= 1
    /\ \E r \in 0 .. call[t].v : NearestEven(r, call[t].v) /\ r > MaxPoolPuts
    /\ bins[call[t].p][call[t].j - 1].puts = MaxPoolPuts

\* ---- C13: the compare-and-swap of reducePuts

\* thread t's reducePuts holds a value of its current bin that a concurrent
\* Put has incremented since
Stale(t) ==
  /\ pc[t] = "pp_rcas"
  /\ bins[call[t].p][call[t].j].puts # call[t].v

\* C13: under any interleaving of the goroutines that use the poolers, a bin
\* counter changes only by an increment of a Put (old + 1) or by a swap of
\* reducePuts that writes the decayed value of what the bin holds at that
\* moment; a reducePuts whose loaded value is stale changes nothing and
\* loads again. So an increment made while reducePuts is at the bin is
\* either decayed with the rest (decay(v + 1)) or added after the decay
\* (decay(v) + 1), never overwritten by decay(v).
C13_NoLostIncrement ==
  [][/\ \A p \in Poolers : \A i \in Idx :
          LET old == bins[p][i].puts
              new == bins'[p][i].puts IN
          new # old =>
            \/ /\ new = old + 1
               /\ \E t \in Threads :
                    /\ pc[t] = "pp_binadd" /\ pc'[t] = "pp_inc"
                    /\ call[t].p = p /\ call[t].bin = i
            \/ /\ new = Decayed(old)
               /\ \E t \in Threads :
                    /\ pc[t] = "pp_rcas" /\ Moved(t) /\ ~Stale(t)
                    /\ call[t].p = p /\ call[t].j = i
     /\ \A t \in Threads :
          Stale(t) /\ Moved(t) =>
            /\ bins' = bins
            /\ pc'[t] = "pp_rload" /\ call'[t] = call[t]]_vars

\* C13 witness: a Put has incremented the bin that another goroutine's
\* reducePuts has loaded and is about to swap.
C13_Witness ==
  \E t \in Threads : \E u \in Threads \ {t} :
    /\ Stale(t)
    /\ bins[call[t].p][call[t].j].puts = call[t].v + 1
    /\ pc[u] = "pp_inc" /\ call[u].p = call[t].p /\ call[u].bin = call[t].j

\* ---- C14: the recomputation schedule

\* the length of the ramp: the counted Puts that recompute unconditionally
Ramp == -RampStart

\* under SpecSched the goroutine alternates Get and Put, all Puts counted:
\* the number of the counted Put that is running
PutNo == ops \div 2

\* the counted Put number k is one that recomputes
OnSchedule(k) == k <= Ramp \/ (k - Ramp) % ChooseInc = 0

\* the put counter of the pooler once its counted Put number k is over
PutsAfter(k) == IF k <= Ramp THEN RampStart + k ELSE (k - Ramp) % ChooseInc

\* C14: one goroutine using a new pooler: the put counter starts at -9; the
\* counted Put number k runs chooseDefPool and reducePuts exactly when k <= 9
\* or k = 9 + m * chooseInc for some m >= 1, it stores 0 into the put
\* counter exactly in the second case, and when it is over the counter is
\* -9 + k during the ramp and (k - 9) mod chooseInc afterwards.
C14_Schedule ==
  /\ [](ops = 0 => \A p \in Poolers : puts[p] = -9)
  /\ [](\A t \in Threads :
          call[t].op = "PPut" =>
            /\ ops % 2 = 0
            /\ pc[t] \in {"pp_choose", "pp_store", "pp_rload", "pp_rcas"}
                 => OnSchedule(PutNo)
            /\ pc[t] = "pp_reset" => PutNo > Ramp /\ OnSchedule(PutNo)
            /\ pc[t] \in {"sp_put", "ret"}
                 => puts[call[t].p] = PutsAfter(PutNo))
  /\ [][\A t \in Threads :
          pc[t] = "pp_inc" /\ Moved(t) =>
            /\ pc'[t] = "pp_choose" <=> OnSchedule(PutNo)
            /\ pc'[t] # "pp_choose" => pc'[t] = "sp_put"]_vars
  /\ [][\A t \in Threads :
          pc[t] = "pp_rcas" /\ pc'[t] \notin {"pp_rload", "pp_rcas"} =>
            pc'[t] = (IF PutNo > Ramp THEN "pp_reset" ELSE "sp_put")]_vars

\* C14 witness: the counted Put number 9 + 2 * chooseInc has recomputed and
\* reset the put counter.
C14_Witness ==
  \E t \in Threads :
    /\ call[t].op = "PPut" /\ pc[t] = "sp_put"
    /\ PutNo = Ramp + 2 * ChooseInc
    /\ call[t].reset /\ call[t].j = N
    /\ puts[call[t].p] = 0

\* ---- C15: the poolers of one pool

\* the pooler that the call thread t is in, or is starting, works on (0: a
\* call on the BucketPool itself)
Target(t) == IF pc[t] = "idle" THEN call'[t].p ELSE call[t].p

\* the private state of pooler q is left as it is
PoolerKept(q) ==
  bins'[q] = bins[q] /\ defIdx'[q] = defIdx[q] /\ puts'[q] = puts[q]

\* C15: with two poolers of the same BucketPool used by concurrent
\* goroutines, every step of a call on one pooler leaves the bins, the
\* default index and the put counter of the other pooler unchanged; what
\* the poolers share is the pool: its free-lists and its hit, miss and
\* overflow bookkeeping.
C15_PoolersIsolated ==
  [][\A t \in Threads :
       Moved(t) => \A q \in Poolers \ {Target(t)} : PoolerKept(q)]_vars

\* C15 witness: a Get on one pooler has hit a Bytes of the shared free-list
\* while all Puts so far went to the other pooler, whose put counter they
\* advanced; its own bins count no Put and its put counter is where
\* Pooler() left it.
C15_Witness ==
  \E a \in Poolers : \E b \in Poolers \ {a} :
    /\ \E i \in Idx : bins[b][i].hits >= 1 /\ hits[i] >= 1
    /\ \A i \in Idx : bins[b][i].puts = 0
    /\ puts[b] = RampStart /\ defIdx[b] = 0
    /\ puts[a] > RampStart

\* ---- C16: convergence of the default bucket

\* under SpecConv the Put number j of the skewed stream is the call number
\* ConvFrom + 2 * j: that Put is past the point where it stores the default
\* index, if it is one that recomputes
SkewedPast(j) ==
  \/ ops > ConvFrom + 2 * j
  \/ /\ ops = ConvFrom + 2 * j
     /\ \A t \in Threads :
          pc[t] \notin {"pp_binadd", "pp_inc", "pp_choose", "pp_store"}

LastOf(s, n) == IF Len(s) <= n THEN s ELSE SubSeq(s, Len(s) - n + 1, Len(s))

\* thread t's over() records its sample
Records(t) == pc[t] = "over_append" /\ pc'[t] = "over_unlock"

\* the size thread t's over() was called with: the capacity of the Bytes
\* for a Put, the size asked for a get
Sample(t) == IF call[t].op \in PutOps THEN bufs[call[t].b].cap ELSE call[t].c

\* C17: each of the two sample lists has at most 11 entries in every state;
\* a list changes only when an over() of its path records, and then it
\* becomes the last 11 entries of the old list followed by the new size: the
\* lists hold the most recent sizes recorded on their path, in recording
\* order, the oldest being the first to go.
C17_SampleLists ==
  /\ [](Len(getOvers) <= 11 /\ Len(putOvers) <= 11)
  /\ [][/\ \A t \in Threads :
             Records(t) =>
               IF call[t].op \in PutOps
               THEN /\ putOvers' = LastOf(Append(putOvers, Sample(t)), 11)
                    /\ getOvers' = getOvers
               ELSE /\ getOvers' = LastOf(Append(getOvers, Sample(t)), 11)
                    /\ putOvers' = putOvers
        /\ (\A t \in Threads : ~Records(t)) =>
             getOvers' = getOvers /\ putOvers' = putOvers]_vars

\* C17 witness: both lists are full after at least 12 overflows on each
\* path, so each has evicted; the get list holds two different sizes.
C17_Witness ==
  /\ overs >= 24
  /\ Len(getOvers) = 11 /\ Len(putOvers) = 11
  /\ getOvers[1] # getOvers[11]

\* ---- C18: the overflow counter

\* thread t is in a GetGrown or GetFilled of a size beyond the largest
\* bucket, or in a Put of a Bytes whose capacity is beyond it
InOverCall(t) ==
  \/ call[t].op \in {"GetGrown", "GetFilled"} /\ call[t].c > MaxSize
  \/ call[t].op \in PutOps /\ bufs[call[t].b].cap > MaxSize

\* thread t's call has not done its p.overs.Add(1) yet
BeforeOverAdd(t) ==
  pc[t] \in {"pp_binadd", "pp_inc", "pp_choose", "pp_store", "pp_rload",
             "pp_rcas", "pp_reset", "over_add"}

\* C18: under any interleaving the overflow counter equals the number of
\* GetGrown and GetFilled calls made with a size beyond the largest bucket
\* plus the number of non-nil Put calls made with a capacity beyond it,
\* less the calls of these that are still on their way to the increment (so
\* the numbers are equal whenever no call is running); and the two sample
\* lists together never hold more entries than the counter counts.
C18_OversCount ==
  /\ overs + Cardinality({t \in Threads : InOverCall(t) /\ BeforeOverAdd(t)})
       = overCalls
  /\ Quiet => overs = overCalls
  /\ Len(getOvers) + Len(putOvers) <= overs

\* C18 witness: three overflow calls have returned, two of them gets that
\* overlapped so that one sample was skipped, and the counter counts three.
C18_Witness ==
  /\ Quiet /\ overCalls = 3 /\ overs = 3
  /\ Len(getOvers) = 1 /\ Len(putOvers) = 1

\* ---- C19: over() when the sample lock is busy

\* C19: under any interleaving, over() increments the overflow counter
\* whatever the state of the lock; when its Swap finds the lock held it
\* returns at once, leaving the counter, the lock and both sample lists as
\* they are; and its steps up to the return of over() are never disabled by
\* the lock, so the get or Put that overflowed does not wait for it.
C19_BusyLockSkips ==
  /\ [](\A t \in Threads :
          /\ pc[t] = "over_add" => ENABLED OverAdd(t)
          /\ pc[t] = "over_swap" => ENABLED OverSwap(t))
  /\ [][\A t \in Threads :
          /\ pc[t] = "over_add" /\ Moved(t) =>
               overs' = overs + 1 /\ pc'[t] = "over_swap"
          /\ pc[t] = "over_swap" /\ Moved(t) /\ oversLock =>
               /\ pc'[t] = "over_done"
               /\ getOvers' = getOvers /\ putOvers' = putOvers
               /\ overs' = overs /\ oversLock'
          /\ pc[t] = "over_swap" /\ Moved(t) /\ ~oversLock =>
               pc'[t] = "over_append" /\ oversLock']_vars

\* C19 witness: two overflows overlapped; one goroutine holds the lock and
\* has not recorded yet, the other has found the lock held and left over()
\* without recording: the counter is 2 and both lists are empty.
C19_Witness ==
  \E t \in Threads : \E u \in Threads \ {t} :
    /\ pc[t] = "over_done" /\ pc[u] = "over_append"
    /\ oversLock /\ overs = 2
    /\ getOvers = <<>> /\ putOvers = <<>>

\* ---- C20: the sample lock is released

\* the goroutines between a Swap that took the lock and the Store that
\* releases it, in over() or in Stats()
LockHolders ==
  {t \in Threads :
     pc[t] \in {"over_append", "over_unlock", "st_overs", "st_clone",
                "st_hits", "st_misses", "st_unlock"}}

\* the steps holder t has left up to and including its release of the lock
StepsToRelease(t) ==
  CASE pc[t] = "over_append" -> 2
    [] pc[t] = "over_unlock" -> 1
    [] pc[t] = "st_overs" -> 2 * N + 3
    [] pc[t] = "st_clone" -> 2 * N + 2
    [] pc[t] = "st_hits" -> 2 * (N - call[t].j) + 1
    [] pc[t] = "st_misses" -> 2 * (N - call[t].j)
    [] pc[t] = "st_unlock" -> 1
    [] OTHER -> 0

IntBits == 24
MantBits == 6
MaxBuckets == 3    \* largest numBuckets asked of LinearSizes and ExpoSizes
MaxMin == 12       \* largest minSize asked of a generator
MaxIn == 3         \* longest size list handed to NewBucketFull

Pow(b, k) == b ^ k
MaxInt == Pow(2, IntBits - 1) - 1
\* largest maxSize asked of LinearSizes and ExpoSizes: float64 holds every
\* integer up to 2^MantBits and every second one from there to MaxFloatArg
MaxFloatArg == Pow(2, MantBits + 1) - 1
\* turns of the Pow2Sizes loop followed in one call
MaxLoop == IntBits + 3

\* the int that the low IntBits bits of v stand for (two's complement)
WrapInt(v) ==
  LET m == v % Pow(2, IntBits)
  IN IF m > MaxInt THEN m - Pow(2, IntBits) ELSE m

\* A float64 >= 0 is a pair <<a, b>> standing for a / b, b a power of two.
\* Float(a, b): the float64 nearest to a / b (a >= 0, b > 0), a half going
\* to the even mantissa.
Float(a, b) ==
  IF a = 0 THEN <<0, 1>>
  ELSE LET Up(x) == IF x > 0 THEN Pow(2, x) ELSE 1
           e == CHOOSE x \in (-(MantBits + 2)) .. (MantBits + 2) :
                  /\ Pow(2, MantBits - 1) * b * Up(x) <= a * Up(-x)
                  /\ a * Up(-x) < Pow(2, MantBits) * b * Up(x)
           m == RoundHalfEven(a * Up(-e), b * Up(e))
       IN IF e >= 0 THEN <<m * Pow(2, e), 1>> ELSE <<m, Pow(2, -e)>>

\* float64(i) for an int i >= 0
FloatOfInt(i) == Float(i, 1)
\* x / y, x * y and x + y of float64s
FDiv(x, y) == Float(x[1] * y[2], x[2] * y[1])
FMul(x, y) == Float(x[1] * y[1], x[2] * y[2])
FAdd(x, y) == Float(x[1] * y[2] + y[1] * x[2], x[2] * y[2])
\* int(math.RoundToEven(x))
RoundToInt(x) == WrapInt(RoundHalfEven(x[1], x[2]))

\* math.Pow(y, 1/k) for a float64 y >= 1 and k >= 1, taken as the float64
\* nearest to the k-th root of y: the largest float64 lo = m / 2^j whose k-th
\* power is at most y, or the float64 after it when y lies beyond the k-th
\* power of their midpoint
FloatRoot(y, k) ==
  IF k = 1 THEN y
  ELSE LET Cands == (Pow(2, MantBits - 1) .. (Pow(2, MantBits) - 1))
                      \X (1 .. (MantBits - 1))
           After(c) == IF c[1] + 1 < Pow(2, MantBits) THEN <<c[1] + 1, c[2]>>
                       ELSE <<Pow(2, MantBits - 1), c[2] - 1>>
           Below(c) == Pow(c[1], k) * y[2] <= y[1] * Pow(2, c[2] * k)
           lo == CHOOSE c \in Cands : Below(c) /\ ~Below(After(c))
           hi == After(lo)
           midL == Pow(2 * lo[1] + 1, k) * y[2]
           midR == y[1] * Pow(2, (lo[2] + 1) * k)
           r == IF midL < midR THEN hi
                ELSE IF midL > midR THEN lo
                ELSE IF lo[1] % 2 = 0 THEN lo ELSE hi
       IN <<r[1], Pow(2, r[2])>>

\* math.Pow(r, float64(i)) for an int i >= 0
FloatPow(r, i) == Float(Pow(r[1], i), Pow(r[2], i))

\* slices.Compact: consecutive equal elements become one
RECURSIVE Compact(_)
Compact(s) ==
  IF Len(s) < 2 THEN s
  ELSE LET c == Compact(Tail(s))
       IN IF Head(s) = Head(c) THEN c ELSE <<Head(s)>> \o c

\* LinearSizes(minSize, maxSize, numBuckets) past its argument checks
LinearSizes(min, max, numBuckets) ==
  LET inc == FDiv(FloatOfInt(max - min), FloatOfInt(numBuckets - 1))
      v(i) == FAdd(FloatOfInt(min), FMul(FloatOfInt(i), inc))
  IN Compact([k \in 1 .. numBuckets |-> RoundToInt(v(k - 1))])

\* ExpoSizes(minSize, maxSize, numBuckets) past its argument checks
ExpoSizes(min, max, numBuckets) ==
  LET r == FloatRoot(FDiv(FloatOfInt(max), FloatOfInt(min)), numBuckets - 1)
      v(i) == FMul(FloatOfInt(min), FloatPow(r, i))
  IN Compact([k \in 1 .. numBuckets |-> RoundToInt(v(k - 1))])

\* slices.Sort
RECURSIVE Sort(_)
Sort(s) ==
  IF Len(s) < 2 THEN s
  ELSE LET k == CHOOSE i \in 1 .. Len(s) : \A j \in 1 .. Len(s) : s[i] <= s[j]
           rest == [j \in 1 .. (Len(s) - 1) |-> IF j < k THEN s[j] ELSE s[j + 1]]
       IN <<s[k]>> \o Sort(rest)

\* the three generators
Generators == {"Pow2Sizes", "LinearSizes", "ExpoSizes"}

\* every variable but gen
genFrame == <<pc, call, held, bufs, poolVars, overVars, poolerVars, ops, err,
              impl, pool, dynVars, rt, overCalls, rel, gets, v2pool>>

\* a call that panics with msg
Panic(msg) == [gen EXCEPT !.st = "panic", !.msg = msg]

\* a Pow2Sizes that rejects only minSize < 0
Pow2CallMinZero ==
  /\ gen.fn = "Pow2Sizes" /\ gen.st = "call"
  /\ gen' = IF gen.min < 0 THEN Panic("minSize < 0")
            ELSE IF gen.max <= gen.min THEN Panic("maxSize <= minSize")
            ELSE [gen EXCEPT !.st = "loop", !.s = gen.min, !.sizes = <<>>]
  /\ UNCHANGED genFrame

\* Pow2Sizes(minSize, maxSize): the argument checks and s := minSize
Pow2Call ==
  /\ gen.fn = "Pow2Sizes" /\ gen.st = "call"
  /\ gen' = IF gen.min < 1 THEN Panic("minSize < 1")
            ELSE IF gen.max <= gen.min THEN Panic("maxSize <= minSize")
            ELSE [gen EXCEPT !.st = "loop", !.s = gen.min, !.sizes = <<>>]
  /\ UNCHANGED genFrame

\* one turn of the loop: sizes = append(sizes, s); s *= 2
Pow2Loop ==
  /\ gen.fn = "Pow2Sizes" /\ gen.st = "loop"
  /\ gen.s < gen.max
  /\ Len(gen.sizes) < MaxLoop
  /\ gen' = [gen EXCEPT !.sizes = Append(gen.sizes, gen.s),
                        !.s = WrapInt(gen.s * 2)]
  /\ UNCHANGED genFrame

\* the loop ends: sizes = append(sizes, maxSize); return sizes
Pow2Return ==
  /\ gen.fn = "Pow2Sizes" /\ gen.st = "loop"
  /\ gen.s >= gen.max
  /\ gen' = [gen EXCEPT !.sizes = Append(gen.sizes, gen.max), !.st = "done"]
  /\ UNCHANGED genFrame

\* LinearSizes(minSize, maxSize, numBuckets)
LinearCall ==
  /\ gen.fn = "LinearSizes" /\ gen.st = "call"
  /\ gen' = IF gen.min < 0 THEN Panic("minSize < 0")
            ELSE IF gen.max <= gen.min THEN Panic("maxSize <= minSize")
            ELSE IF gen.n < 2 THEN Panic("numBuckets < 2")
            ELSE [gen EXCEPT !.st = "done",
                             !.sizes = LinearSizes(gen.min, gen.max, gen.n)]
  /\ UNCHANGED genFrame

\* ExpoSizes(minSize, maxSize, numBuckets)
ExpoCall ==
  /\ gen.fn = "ExpoSizes" /\ gen.st = "call"
  /\ gen' = IF gen.min < 1 THEN Panic("minSize < 1")
            ELSE IF gen.max <= gen.min THEN Panic("maxSize <= minSize")
            ELSE IF gen.n < 2 THEN Panic("numBuckets < 2")
            ELSE [gen EXCEPT !.st = "done",
                             !.sizes = ExpoSizes(gen.min, gen.max, gen.n)]
  /\ UNCHANGED genFrame

\* a NewBucketFull that sorts the slice it was handed
SortInPlace(arg) == [caller |-> Sort(arg), sizes |-> Compact(Sort(arg))]

\* NewBucketFull past its checks: sizes = slices.Clone(sizes);
\* slices.Sort(sizes); sizes = slices.Compact(sizes).  caller: what the
\* caller's slice holds afterwards; sizes: the sizes of the pools made.
CloneSort(arg) == [caller |-> arg, sizes |-> Compact(Sort(arg))]

\* NewBucketFull(sizes), on a list of the caller's or on the list a
\* generator returned (NewBucket(min, max) is NewBucketFull(Pow2Sizes(..)))
NewBucketFullCall ==
  /\ \/ gen.fn = "NewBucketFull" /\ gen.st = "call"
     \/ gen.fn \in Generators /\ gen.st = "done"
  /\ LET arg == IF gen.fn \in Generators THEN gen.sizes ELSE gen.arg
         by == IF gen.fn \in Generators THEN gen.fn ELSE ""
         g == [gen EXCEPT !.fn = "NewBucketFull", !.by = by, !.arg = arg,
                          !.sizes = <<>>]
     IN gen' = IF Len(arg) = 0
                 THEN [g EXCEPT !.st = "panic", !.msg = "empty sizes"]
               ELSE IF \E k \in 1 .. Len(arg) : arg[k] < 1
                 THEN [g EXCEPT !.st = "panic", !.msg = "size < 1"]
               ELSE [g EXCEPT !.st = "done", !.arg = CloneSort(arg).caller,
                              !.sizes = CloneSort(arg).sizes]
  /\ UNCHANGED genFrame

\* BucketPool.Pooler(o): the options the BucketPooler is made with
PoolerOptions(o) ==
  LET chooseInc == IF o.ChooseInc <= 0 THEN 1000 ELSE o.ChooseInc
      unsetDecay == o.DecayNum <= 0
      maxPoolPuts == IF o.MaxPoolPuts <= 0 THEN WrapInt(chooseInc * 100)
                     ELSE o.MaxPoolPuts
      binChecks == IF o.BinChecks <= 0 THEN 4 ELSE o.BinChecks
  IN [ChooseInc |-> chooseInc,
      DecayNum |-> IF unsetDecay THEN 1 ELSE o.DecayNum,
      DecayDen |-> IF unsetDecay THEN 2 ELSE o.DecayDen,
      MaxPoolPuts |-> maxPoolPuts,
      BinChecks |-> Max2(1, binChecks)]

\* BucketPool.Pooler(o)
MakePooler ==
  /\ gen.fn = "Pooler" /\ gen.st = "call"
  /\ gen' = [gen EXCEPT !.st = "done", !.pooler = PoolerOptions(gen.opt)]
  /\ UNCHANGED genFrame

\* the arguments the generators, NewBucketFull and Pooler are called with
GenMins == (-1) .. MaxMin
GenMaxes == 0 .. MaxFloatArg
Pow2Maxes == (0 .. (2 * MaxMin)) \cup
             {Pow(2, IntBits - 2) + 1, 11 * Pow(2, IntBits - 5) + 1, MaxInt}
GenBuckets == 0 .. MaxBuckets
InSizes == (-1) .. 3
InLists == UNION {[1 .. k -> InSizes] : k \in 0 .. MaxIn}
OptInts == {-1, 0, 1, 3, Pow(2, IntBits - 2)}
OptDecays == {<<-1, 2>>, <<0, 1>>, <<1, 4>>, <<1, 1>>, <<3, 2>>}

GenCalls ==
  {[NoGen EXCEPT !.fn = "Pow2Sizes", !.st = "call", !.min = a, !.max = b] :
     a \in GenMins, b \in Pow2Maxes}
  \cup {[NoGen EXCEPT !.fn = f, !.st = "call", !.min = a, !.max = b, !.n = k] :
          f \in {"LinearSizes", "ExpoSizes"}, a \in GenMins, b \in GenMaxes,
          k \in GenBuckets}
  \cup {[NoGen EXCEPT !.fn = "NewBucketFull", !.st = "call", !.arg = l] :
          l \in InLists}
  \cup {[NoGen EXCEPT !.fn = "Pooler", !.st = "call",
                      !.opt = [ChooseInc |-> c, DecayNum |-> d[1],
                               DecayDen |-> d[2], MaxPoolPuts |-> m,
                               BinChecks |-> k]] :
          c \in OptInts, d \in OptDecays, m \in OptInts, k \in OptInts}

\* a program about to call a generator or a constructor
InitGen ==
  /\ InitState /\ impl = "bucket" /\ calls = NoCalls /\ NewPoolers
  /\ gen \in GenCalls /\ rel = NoRel /\ v2pool = NoV2

GenNext ==
  \/ Pow2Call \/ Pow2Loop \/ Pow2Return
  \/ LinearCall \/ ExpoCall
  \/ NewBucketFullCall
  \/ MakePooler

SpecGen == InitGen /\ [][GenNext]_vars

\* ==== C21 ================================================================
\* Pow2Sizes has returned from a call with min >= 1 and max > min
Pow2Returned ==
  /\ gen.fn = "Pow2Sizes" /\ gen.st = "done"
  /\ gen.min >= 1 /\ gen.max > gen.min

\* the list s is min, 2*min, 4*min, ... (every term < max) followed by max
Pow2Shape(s, min, max) ==
  /\ Len(s) >= 2
  /\ s[1] = min
  /\ s[Len(s)] = max
  /\ \A k \in 2 .. Len(s) : s[k - 1] < s[k]
  /\ \A k \in 2 .. (Len(s) - 1) : s[k] = 2 * s[k - 1]

\* C21: for min >= 1 and max > min the list Pow2Sizes(min, max) returns is
\* min, 2*min, 4*min, ... (every term < max) followed by max: it starts at
\* min, ends at max, is strictly increasing, and every element but the last
\* is double its predecessor.
C21_Pow2Sizes == Pow2Returned => Pow2Shape(gen.sizes, gen.min, gen.max)

\* C21 where doubling cannot overflow: as long as 2 * max fits an int, the
\* returned list has that shape.
C21_InRange ==
  (Pow2Returned /\ 2 * gen.max <= MaxInt)
    => Pow2Shape(gen.sizes, gen.min, gen.max)

\* the doubling has overflowed: s *= 2 has wrapped to a negative size, which
\* the returned list contains (11<<19, then 11<<20 wrapped, then max)
C21_Witness ==
  /\ Pow2Returned
  /\ \E k \in 1 .. Len(gen.sizes) : gen.sizes[k] < 0

\* the doubling has overflowed to 0 and the loop can no longer end: s < max
\* holds for ever and every turn appends another 0
C21_Diverges ==
  /\ gen.fn = "Pow2Sizes" /\ gen.st = "loop"
  /\ gen.min >= 1 /\ gen.max > gen.min
  /\ gen.s = 0 /\ WrapInt(gen.s * 2) = gen.s /\ gen.s < gen.max

\* ==== C22 ================================================================
\* LinearSizes has returned from a call with min >= 1, max > min and
\* numBuckets >= 2
LinearReturned ==
  /\ gen.fn = "LinearSizes" /\ gen.st = "done"
  /\ gen.min >= 1 /\ gen.max > gen.min /\ gen.n >= 2

\* the list s starts at min, ends at max, is strictly increasing and has
\* min(n, max - min + 1) elements
LinearShape(s, min, max, n) ==
  /\ Len(s) = Min2(n, max - min + 1)
  /\ s[1] = min
  /\ s[Len(s)] = max
  /\ \A k \in 2 .. Len(s) : s[k - 1] < s[k]

\* C22: for min >= 1, max > min and numBuckets >= 2 the list
\* LinearSizes(min, max, numBuckets) returns starts at min, ends at max, is
\* strictly increasing and has exactly min(numBuckets, max - min + 1)
\* elements, so never more than numBuckets.
C22_LinearSizes ==
  LinearReturned
    => /\ LinearShape(gen.sizes, gen.min, gen.max, gen.n)
       /\ Len(gen.sizes) <= gen.n

\* C22 where float64 is exact: as long as max is below 2^(MantBits - 1),
\* so that every sum and product of the loop is a multiple of 1/2 that
\* float64 holds exactly, the returned list has that shape.
C22_InRange ==
  (LinearReturned /\ gen.max < Pow(2, MantBits - 1))
    => LinearShape(gen.sizes, gen.min, gen.max, gen.n)

\* float64 has rounded: the last element of the returned list is not max
C22_Witness ==
  /\ LinearReturned
  /\ gen.sizes[Len(gen.sizes)] # gen.max

\* within the exact range: a list shortened by Compact, its middle value
\* min + 1/2 rounded to the even neighbour
C22_Compacted ==
  /\ LinearReturned /\ gen.max < Pow(2, MantBits - 1)
  /\ gen.n = 3 /\ gen.max = gen.min + 1
  /\ gen.sizes = <<gen.min, gen.max>>

\* ==== C23 ================================================================
\* a valid bucket boundary set: non-empty, ascending without duplicates, all
\* elements positive
ValidSizes(s) ==
  /\ Len(s) >= 1
  /\ \A k \in 1 .. Len(s) : s[k] >= 1
  /\ \A k \in 2 .. Len(s) : s[k - 1] < s[k]

\* a generator has accepted its arguments and returned
GeneratorReturned == gen.fn \in Generators /\ gen.st = "done"

\* NewBucketFull has been called on the list a generator returned
BucketsOfGenerator ==
  gen.fn = "NewBucketFull" /\ gen.by \in Generators /\ gen.st # "call"

\* C23: every list that Pow2Sizes, LinearSizes or ExpoSizes returns for
\* arguments it accepts is a valid bucket boundary set (non-empty, ascending
\* without duplicates, all elements >= 1), and NewBucketFull accepts it
\* without a panic.
C23_GeneratedValid ==
  /\ GeneratorReturned => ValidSizes(gen.sizes)
  /\ BucketsOfGenerator => gen.st = "done" /\ gen.sizes = gen.arg

\* C23 for minSize >= 1 and, for Pow2Sizes, a doubling that cannot overflow
C23_InRange ==
  LET exact == /\ gen.min >= 1
               /\ gen.by = "Pow2Sizes" \/ gen.fn = "Pow2Sizes"
                    => 2 * gen.max <= MaxInt
  IN /\ GeneratorReturned /\ exact => ValidSizes(gen.sizes)
     /\ BucketsOfGenerator /\ exact => gen.st = "done" /\ gen.sizes = gen.arg

\* LinearSizes accepted minSize = 0 and the list it returned, which starts
\* with 0, made NewBucketFull panic
C23_Witness ==
  /\ BucketsOfGenerator /\ gen.by = "LinearSizes"
  /\ gen.min = 0 /\ gen.arg[1] = 0
  /\ gen.st = "panic" /\ gen.msg = "size < 1"

\* a generated list that NewBucketFull accepted: one bucket per element
C23_Accepted ==
  /\ BucketsOfGenerator /\ gen.by = "ExpoSizes" /\ gen.st = "done"
  /\ Len(gen.sizes) = MaxBuckets

\* ==== C24 ================================================================
\* the call under way has got past its start
Started == gen.st # "call" /\ gen.st # ""

\* the call panicked: it yields no list, and nothing runs after it
Fatal ==
  /\ gen.st = "panic" /\ gen.msg # ""
  /\ gen.sizes = <<>>
  /\ ~ENABLED GenNext

\* the size list handed to NewBucketFull is empty or holds a size < 1
BadSizes(s) == Len(s) = 0 \/ \E k \in 1 .. Len(s) : s[k] < 1

\* C24: invalid construction input is fatal and yields no value.  Every
\* generator panics when max <= min; LinearSizes and ExpoSizes panic when
\* numBuckets < 2; Pow2Sizes and ExpoSizes panic when min < 1, LinearSizes
\* when min < 0; NewBucketFull panics when the size list is empty or holds a
\* size < 1.
C24_InvalidInputPanics ==
  /\ gen.st = "panic" => Fatal
  /\ (Started /\ gen.fn \in Generators /\ gen.max <= gen.min) => Fatal
  /\ (Started /\ gen.fn \in {"LinearSizes", "ExpoSizes"} /\ gen.n < 2) => Fatal
  /\ (Started /\ gen.fn \in {"Pow2Sizes", "ExpoSizes"} /\ gen.min < 1) => Fatal
  /\ (Started /\ gen.fn = "LinearSizes" /\ gen.min < 0) => Fatal
  /\ (Started /\ gen.fn = "NewBucketFull" /\ BadSizes(gen.arg)) => Fatal

\* ExpoSizes has panicked on numBuckets < 2 alone, and NewBucketFull on a
\* list whose only fault is one size < 1
C24_Witness ==
  \/ /\ gen.fn = "ExpoSizes" /\ gen.st = "panic"
     /\ gen.min >= 1 /\ gen.max > gen.min /\ gen.n < 2
  \/ /\ gen.fn = "NewBucketFull" /\ gen.st = "panic" /\ gen.by = ""
     /\ Len(gen.arg) = MaxIn /\ gen.arg[1] >= 1 /\ gen.arg[MaxIn] = 0

\* ==== C25 ================================================================
\* the distinct values of the list s
Elements(s) == {s[k] : k \in 1 .. Len(s)}

\* NewBucketFull was called by the program itself, on a non-empty list of
\* sizes >= 1, and has returned
BucketsBuilt ==
  /\ gen.fn = "NewBucketFull" /\ gen.by = "" /\ gen.st = "done"

PoolerMade == gen.fn = "Pooler" /\ gen.st = "done"

\* each option that is unset or non-positive is replaced by its default,
\* independently of the others, and every other given value is kept
DefaultsApplied(o, p) ==
  /\ p.ChooseInc = IF o.ChooseInc <= 0 THEN 1000 ELSE o.ChooseInc
  /\ <<p.DecayNum, p.DecayDen>>
       = IF o.DecayNum <= 0 THEN <<1, 2>> ELSE <<o.DecayNum, o.DecayDen>>
  /\ p.MaxPoolPuts = IF o.MaxPoolPuts <= 0 THEN 100 * p.ChooseInc
                     ELSE o.MaxPoolPuts
  /\ p.BinChecks = IF o.BinChecks <= 0 THEN 4 ELSE o.BinChecks

\* C26: for any options passed to Pooler() the BucketPooler made has
\* chooseInc > 0, decay in (0, 1], maxPoolPuts > 0 and binChecks >= 1: each
\* option that is unset or non-positive is replaced independently by its
\* default (1000, 0.5, 100 times the effective chooseInc, 4) and every other
\* given value is kept.
C26_PoolerOptions ==
  PoolerMade
    => /\ gen.pooler.ChooseInc > 0
       /\ 0 < gen.pooler.DecayNum /\ gen.pooler.DecayNum <= gen.pooler.DecayDen
       /\ gen.pooler.MaxPoolPuts > 0
       /\ gen.pooler.BinChecks >= 1
       /\ DefaultsApplied(gen.opt, gen.pooler)

\* C26 less what the code does not give: chooseInc > 0, decay > 0 and
\* binChecks >= 1 always; the defaults are applied independently and given
\* positive values kept, as long as 100 * chooseInc fits an int when it is
\* the default of maxPoolPuts, and then maxPoolPuts > 0 too.
C26_WithinInt ==
  PoolerMade
    => /\ gen.pooler.ChooseInc > 0
       /\ gen.pooler.DecayNum > 0
       /\ gen.pooler.BinChecks >= 1
       /\ (gen.opt.MaxPoolPuts > 0 \/ 100 * gen.pooler.ChooseInc <= MaxInt)
            => /\ gen.pooler.MaxPoolPuts > 0
               /\ DefaultsApplied(gen.opt, gen.pooler)

\* the default of maxPoolPuts has overflowed: a huge ChooseInc was kept and
\* 100 times it is not positive as an int
C26_Witness ==
  /\ PoolerMade
  /\ gen.opt.MaxPoolPuts <= 0 /\ gen.opt.ChooseInc > 0
  /\ gen.pooler.MaxPoolPuts <= 0

\* a Decay above 1 was given and kept
C26_DecayKept ==
  /\ PoolerMade
  /\ gen.opt.DecayNum > gen.opt.DecayDen
  /\ gen.pooler.DecayNum = gen.opt.DecayNum
  /\ gen.pooler.DecayDen = gen.opt.DecayDen

\* ==== Bytes.Release with more than one pool ==============================
MaxRel == 3        \* Bytes made in one behaviour of SpecRelease
MaxRelOps == 4     \* calls made in one behaviour of SpecRelease
MaxRelReq == 1     \* largest size asked of a syncPool in SpecRelease

RelPools == {1, 2}         \* two pools made by NewSync()
RelIds == 1 .. MaxRel

\* every variable but rel
relFrame == <<pc, call, held, bufs, poolVars, overVars, poolerVars, ops, err,
              impl, pool, dynVars, rt, overCalls, gen, gets, v2pool>>

\* the next Bytes to be allocated
RelNew == CHOOSE x \in RelIds \ rel.live : \A y \in RelIds \ rel.live : x <= y

\* syncPool.Get / GetGrown(c) / GetFilled(c) on pool p: v := p.p.Get() hands
\* out a pooled Bytes, or nil and then b = &Bytes{pool: p}
RelGet(p, op, c) ==
  /\ rel.n < MaxRelOps
  /\ \E id \in rel.free[p] \cup {0} :
       /\ id = 0 => rel.live # RelIds
       /\ LET b == IF id = 0 THEN RelNew ELSE id
              s == SyncSlice(op, IF id = 0 THEN NoBuf ELSE rel.B[b], c)
          IN rel' = [rel EXCEPT !.free[p] = @ \ {id},
                                !.owner[b] = IF id = 0 THEN p ELSE @,
                                !.B[b] = s,
                                !.held = @ \cup {b}, !.live = @ \cup {b},
                                !.op = op, !.b = b, !.p = p, !.n = @ + 1]
  /\ UNCHANGED relFrame

\* the caller makes a Bytes of its own: &Bytes{B: make([]byte, n)}
RelMake(n) ==
  /\ rel.n < MaxRelOps /\ rel.live # RelIds
  /\ rel' = [rel EXCEPT !.owner[RelNew] = 0,
                        !.B[RelNew] = [len |-> n, cap |-> n],
                        !.held = @ \cup {RelNew}, !.live = @ \cup {RelNew},
                        !.op = "Make", !.b = RelNew, !.p = 0, !.n = @ + 1]
  /\ UNCHANGED relFrame

\* what a caller makes of the slice s of a Bytes before it releases it:
\* resliced to nothing or to its capacity
RelSlices(s) == {x \in CallerSlices(s) : x.cap = s.cap /\ x.len \in {0, s.cap}}

\* the caller reslices the B of a Bytes it holds
RelWrite(b, s) ==
  /\ b \in rel.held /\ s \in RelSlices(rel.B[b]) /\ s # rel.B[b]
  /\ rel' = [rel EXCEPT !.B[b] = s, !.op = "Write", !.b = b, !.p = 0]
  /\ UNCHANGED relFrame

\* a Release that returns every Bytes to the first pool
ReleaseToFirst(r, b) ==
  IF b = 0 \/ r.owner[b] = 0 THEN r
  ELSE [r EXCEPT !.B[b].len = 0, !.free[1] = @ \cup {b}, !.held = @ \ {b}]

\* b.Release() with b = 0 for the nil *Bytes: if b != nil && b.pool != nil
\* { b.pool.put(b) }, and syncPool.put: b.B = b.B[:0]; p.p.Put(b)
Release(r, b) ==
  IF b = 0 \/ r.owner[b] = 0 THEN r
  ELSE [r EXCEPT !.B[b].len = 0, !.free[r.owner[b]] = @ \cup {b},
                 !.held = @ \ {b}]

\* a caller calls b.Release() on a Bytes it holds or on nil
RelRelease(b) ==
  /\ rel.n < MaxRelOps
  /\ b \in rel.held \cup {0}
  /\ rel' = [Release(rel, b) EXCEPT !.op = "Release", !.b = b,
                                    !.p = IF b = 0 THEN 0 ELSE rel.owner[b],
                                    !.n = @ + 1]
  /\ UNCHANGED relFrame

\* two pools just made by NewSync()
InitRel ==
  /\ InitState /\ impl = "sync" /\ calls = NoCalls /\ NewPoolers
  /\ gen = NoGen /\ v2pool = NoV2
  /\ rel = [NoRel EXCEPT !.free = [p \in RelPools |-> {}],
                         !.owner = [id \in RelIds |-> 0],
                         !.B = [id \in RelIds |-> NoBuf]]

RelNext ==
  \/ \E p \in RelPools : \E op \in {"SGet", "SGetGrown", "SGetFilled"} :
       \E c \in 0 .. MaxRelReq : (op = "SGet" => c = 0) /\ RelGet(p, op, c)
  \/ \E n \in 0 .. MaxRelReq : RelMake(n)
  \/ \E b \in RelIds : \E s \in RelSlices(rel.B[b]) : RelWrite(b, s)
  \/ \E b \in RelIds \cup {0} : RelRelease(b)

SpecRelease == InitRel /\ [][RelNext]_vars

\* ==== C27 ================================================================
\* this step is a call of op
RelCalls(ops2) == rel'.n # rel.n /\ rel'.op \in ops2

\* the pools and every Bytes are as they were
RelSame ==
  /\ rel'.free = rel.free /\ rel'.owner = rel.owner /\ rel'.B = rel.B
  /\ rel'.held = rel.held /\ rel'.live = rel.live

\* C27: Release on a nil Bytes or on a Bytes with no originating pool is a
\* no-op; on a Bytes obtained from a pool it returns the Bytes, its length
\* reset to 0, to exactly the pool that produced it and to no other, so
\* that only a later get on that pool can receive it: a get hands out a
\* Bytes of its own pool's free list or a new one.
C27_Release ==
  /\ [][RelCalls({"Release"})
          => LET b == rel'.b IN
             IF b = 0 \/ rel.owner[b] = 0 THEN RelSame
             ELSE /\ rel'.B = [rel.B EXCEPT ![b] = [len |-> 0, cap |-> @.cap]]
                  /\ rel'.free = [rel.free EXCEPT ![rel.owner[b]] = @ \cup {b}]
                  /\ rel'.owner = rel.owner
                  /\ rel'.held = rel.held \ {b}]_vars
  /\ [][RelCalls({"SGet", "SGetGrown", "SGetFilled"})
          => /\ rel'.b \in rel.free[rel'.p] \/ rel'.b \notin rel.live
             /\ rel'.owner[rel'.b] = rel'.p
             /\ \A q \in RelPools \ {rel'.p} : rel'.free[q] = rel.free[q]]_vars
  /\ [](\A p \in RelPools : \A b \in rel.free[p] :
          rel.owner[b] = p /\ b \notin rel.held /\ rel.B[b].len = 0)

\* a Bytes of the second pool, given a length by its caller, has been
\* released while the first pool holds a Bytes of its own
C27_Witness ==
  /\ rel.op = "Release" /\ rel.b # 0 /\ rel.owner[rel.b] = 2
  /\ rel.B[rel.b].cap > 0
  /\ rel.b \in rel.free[2]
  /\ rel.free[1] # {}

\* a Bytes the caller made itself, of non-zero length, is still the
\* caller's after its Release
C27_Unpooled ==
  /\ rel.op = "Release" /\ rel.b # 0 /\ rel.owner[rel.b] = 0
  /\ rel.B[rel.b].len > 0 /\ rel.b \in rel.held

\* ==== C28 ================================================================
\* hits and misses as they were, but for adding dh to hits[i] and dm to
\* misses[i]
Counted(i, dh, dm) ==
  /\ hits' = [hits EXCEPT ![i] = @ + dh]
  /\ misses' = [misses EXCEPT ![i] = @ + dm]

\* goroutine t's p.pool.Get() inside getNoAlloc returned nothing: for
\* get(c) the call goes on to allocate, for Get() the getNoAlloc(0) call on
\* bucket d+i is over and has returned nil
FoundNone(t) ==
  /\ Moved(t)
  /\ \/ pc[t] = "sp_get" /\ pc'[t] = "sp_alloc"
     \/ pc[t] = "g_scan" /\ call'[t].i = call[t].i + 1

\* the bucket of the getNoAlloc call that goroutine t is in
Probed(t) ==
  IF pc[t] = "g_scan" THEN call[t].d + call[t].i ELSE call[t].idx

\* C28 as written: every get/getNoAlloc call counts once on its own bucket,
\* a hit when it finds a buffer and a miss when it finds none: a
\* getNoAlloc that found none is followed by the miss count of its bucket.
C28_OnePerCall ==
  [][\A t \in Threads :
       FoundNone(t)
         => /\ pc'[t] \in {"sp_alloc", "g_alloc"}
            /\ Probed(t) = (IF pc[t] = "g_scan" THEN call[t].d
                            ELSE call[t].idx)]_vars

\* C28: the counters of a bucket never decrease and move one at a time, by
\* one.  hits of bucket i is incremented exactly once by every get or
\* getNoAlloc call on i that found a buffer, right after it took it, and by
\* nothing else; misses of bucket i is incremented exactly once by every
\* allocate on i, and by nothing else: get(c) allocates when its getNoAlloc
\* found none, so it counts exactly one of the two; a getNoAlloc of Get()
\* that finds none counts nothing, and Get() counts one miss, on the default
\* bucket, when all its getNoAlloc calls found none.
C28_Counters ==
  [][/\ \/ UNCHANGED <<hits, misses>>
        \/ \E i \in Idx : Counted(i, 1, 0) \/ Counted(i, 0, 1)
     /\ \A t \in Threads :
          Moved(t) =>
            /\ pc[t] \in {"sp_hit", "g_sphit"}
                 => Counted(call[t].idx, 1, 0) /\ call[t].got >= 0
            /\ pc[t] = "sp_alloc"
                 => Counted(call[t].idx, 0, 1) /\ pc'[t] = "ret"
            /\ pc[t] = "g_alloc"
                 => /\ Counted(call[t].d, 0, 1) /\ pc'[t] = "g_bmiss"
                    /\ call[t].d + call[t].i = WindowEnd(call[t].d) + 1
            /\ pc[t] \notin {"sp_hit", "g_sphit", "sp_alloc", "g_alloc"}
                 => UNCHANGED <<hits, misses>>
            /\ pc[t] = "sp_get"
                 => pc'[t] \in {"sp_hit", "sp_alloc", "panic"}
            /\ pc[t] = "sp_hit" => pc'[t] \in {"ret", "panic"}
            /\ pc[t] = "g_scan"
                 => \/ pc'[t] = "g_sphit" /\ call'[t].idx = Probed(t)
                    \/ FoundNone(t) /\ pc'[t] \in {"g_scan", "g_alloc"}
            /\ pc[t] = "g_sphit" => pc'[t] \in {"g_hla", "g_bhit"}
            /\ pc'[t] \in {"sp_hit", "g_sphit"}
                 => pc[t] \in {"sp_get", "g_scan"}
            /\ pc'[t] = "sp_alloc" => pc[t] = "sp_get"
            /\ pc'[t] = "g_alloc" => pc[t] = "g_scan"]_vars

\* a Get() has returned a new Bytes after its getNoAlloc calls on two
\* buckets found none: the default bucket has a miss, the next bucket has
\* neither a hit nor a miss
C28_Witness ==
  \E t \in Threads :
    /\ Returned(t, "Get") /\ call[t].got = -1 /\ call[t].i = 2
    /\ misses[call[t].d] = 1
    /\ hits[call[t].d + 1] = 0 /\ misses[call[t].d + 1] = 0

\* ==== C29 ================================================================
\* the bins as they were, but for adding 1 to field f of bin i of pooler p
BinUp(p, i, f) == bins' = [bins EXCEPT ![p][i][f] = @ + 1]

\* goroutine t takes a step of a Get()
GetMoved(t) == Moved(t) /\ call[t].op = "Get" /\ pc[t] # "idle"

\* C29: a Get() that read the default index d and found its Bytes at index
\* i > d increments hits and hitsLookahead of bin i and missesLookahead of
\* bin d, by 1 each, and no misses counter; found at i = d it increments
\* only hits of bin d; when it allocates it increments only misses of bin
\* d.  It touches no other bin counter, and those once each.
C29_LookaheadCredit ==
  [][\A t \in Threads :
       GetMoved(t) =>
         LET p == call[t].p
             d == call[t].d
             i == call[t].idx IN
         /\ pc[t] = "g_sphit"
              => pc'[t] = (IF i > d THEN "g_hla" ELSE "g_bhit") /\ i >= d
         /\ pc[t] = "g_hla"
              => BinUp(p, i, "hitsLookahead") /\ pc'[t] = "g_mla" /\ i > d
         /\ pc[t] = "g_mla"
              => BinUp(p, d, "missesLookahead") /\ pc'[t] = "g_bhit" /\ i > d
         /\ pc[t] = "g_bhit"
              => BinUp(p, i, "hits") /\ pc'[t] = "ret" /\ call[t].got >= 0
         /\ pc[t] = "g_alloc" => pc'[t] = "g_bmiss"
         /\ pc[t] = "g_bmiss"
              => BinUp(p, d, "misses") /\ pc'[t] = "ret" /\ call[t].got = -1
         /\ pc[t] \notin {"g_hla", "g_mla", "g_bhit", "g_bmiss"}
              => bins' = bins
         /\ pc'[t] = "g_hla" => pc[t] = "g_sphit"
         /\ pc'[t] = "g_mla" => pc[t] = "g_hla"
         /\ pc'[t] = "g_bhit" => pc[t] = "g_mla" \/ (pc[t] = "g_sphit" /\ i = d)
         /\ pc'[t] = "g_bmiss" => pc[t] = "g_alloc"
         /\ pc'[t] = "ret" => pc[t] \in {"g_bhit", "g_bmiss"}]_vars

\* on a new pooler a Get() has returned the Bytes it found one bin after
\* the default bin: one hit and one lookahead hit there, one lookahead miss
\* on the default bin, no miss anywhere
C29_Witness ==
  \E t \in Threads :
    LET b == bins[call[t].p] IN
    /\ Returned(t, "Get") /\ call[t].got >= 0 /\ call[t].idx = call[t].d + 1
    /\ b[call[t].idx].hits = 1 /\ b[call[t].idx].hitsLookahead = 1
    /\ b[call[t].d].missesLookahead = 1 /\ b[call[t].d].hits = 0
    /\ \A k \in Idx : b[k].misses = 0

\* ==== C30 ================================================================
\* goroutine t is in a GetGrown(c) with c within bucket range
GrownInRange(t) == call[t].op = "GetGrown" /\ call[t].c <= MaxSize

\* C30: GetGrown(c) with c within bucket range returns, when the free-list
\* of the resolved bucket yields nothing, a newly allocated Bytes of
\* capacity exactly c when c > 0 and of the bucket's size when c <= 0,
\* and credits one miss to that bucket; when the free-list yields a Bytes
\* whose capacity is already >= c it returns that Bytes with its capacity
\* unchanged (and credits one hit).
C30_GetGrown ==
  /\ [](\A t \in Threads :
          pc[t] = "ret" /\ GrownInRange(t) =>
            /\ call[t].idx = Smallest(call[t].c)
            /\ held[t] = call[t].b /\ Result(t).len = 0
            /\ call[t].got = -1 =>
                 Result(t).cap = (IF call[t].c > 0 THEN call[t].c
                                  ELSE Size(call[t].idx))
            /\ call[t].got >= call[t].c => Result(t).cap = call[t].got)
  /\ [][\A t \in Threads :
          Moved(t) /\ GrownInRange(t) =>
            /\ pc[t] = "sp_alloc" =>
                 /\ call[t].got = -1 /\ pc'[t] = "ret"
                 /\ call'[t].b \notin UsedIds
                 /\ \A i \in Idx : call'[t].b \notin freelist[i]
                 /\ Counted(call[t].idx, 0, 1)
                 /\ freelist' = freelist
            /\ pc[t] = "sp_hit" =>
                 /\ call[t].got = bufs[call[t].b].cap
                 /\ call'[t].b = call[t].b
                 /\ Counted(call[t].idx, 1, 0)
            /\ pc[t] = "sp_get" /\ pc'[t] = "sp_hit" =>
                 /\ call'[t].b \in freelist[call[t].idx]
                 /\ call'[t].got = bufs[call'[t].b].cap
            /\ pc'[t] = "ret" => pc[t] \in {"sp_alloc", "sp_hit"}]_vars

\* both cases in one history: a GetGrown has returned, with its capacity
\* unchanged, a pooled Bytes of a capacity above its request and below the
\* bucket's size, which an earlier GetGrown(c) allocated with capacity c
\* after a miss
C30_Witness ==
  \E t \in Threads :
    /\ Returned(t, "GetGrown") /\ GrownInRange(t)
    /\ call[t].got > call[t].c /\ call[t].got < Size(call[t].idx)
    /\ Result(t).cap = call[t].got
    /\ misses[call[t].idx] = 1 /\ hits[call[t].idx] = 1

\* a GetGrown(0) has returned a new Bytes of the first bucket's size
C30_Unsized ==
  \E t \in Threads :
    /\ Returned(t, "GetGrown") /\ call[t].got = -1 /\ call[t].c = 0
    /\ Result(t).cap = Size(0) /\ misses[0] >= 1

\* ==== C31 ================================================================
\* the Bytes in the free-list of bucket k
Pooled(k) == {bufs[id] : id \in freelist[k]}

\* the fatal checks of sizedPool: put ("unexpected cap"), getNoAlloc and
\* allocate ("unexpected c")
SizedPoolPanics == {"unexpected cap", "unexpected c"}

\* C31: in every reachable state each Bytes in the free-list of bucket k
\* has length 0 and a capacity of at most the size of bucket k; every
\* sizedPool.put is called with a capacity of at most the bucket's size
\* and every sizedPool.get with a c of at most the bucket's size, so under
\* any interleaving of GetGrown, GetFilled, Get and Put the panics
\* "unexpected cap" and "unexpected c" never happen.
C31_FreeLists ==
  /\ \A k \in Idx : \A s \in Pooled(k) : s.len = 0 /\ s.cap <= Size(k)
  /\ err \notin SizedPoolPanics
  /\ \A t \in Threads :
       /\ pc[t] = "sp_put" => bufs[call[t].b].cap <= Size(call[t].idx)
       /\ pc[t] \in {"sp_get", "sp_alloc"} => call[t].c <= Size(call[t].idx)
       /\ pc[t] \in {"g_scan", "g_alloc"} => 0 <= Size(call[t].d)

\* a Put of a Bytes that its caller had resliced to a positive length has
\* returned: the Bytes is in the free-list of the bucket of its capacity,
\* with length 0, although its length at the call was within a smaller
\* bucket
C31_Witness ==
  \E t \in Threads :
    /\ Returned(t, "Put") /\ call[t].c > 0 /\ call[t].idx > 0
    /\ call[t].b \in freelist[call[t].idx]
    /\ Result(t).len = 0 /\ Result(t).cap <= Size(call[t].idx)
    /\ call[t].c <= Size(call[t].idx - 1)

\* ======================================================================
\* The v2 BucketPool (src/v2/bucketpool.go): the put counter of Put and
\* the Puts at which it chooses the default pool and decays the bins.  One
\* goroutine Puts Bytes of a capacity within the buckets, again and again.

MaxV2Puts == 250          \* Puts made in one behaviour of SpecV2

\* the ChooseInc options the pools are made with
V2Incs == {1, 2, 3, 11, 101, 120}

\* the ramp of the first cycle
RampCounts == {1, 10, 100}

\* every variable but v2pool
v2Frame == <<pc, call, held, bufs, poolVars, overVars, poolerVars, ops, err,
             impl, pool, dynVars, rt, overCalls, gen, rel, gets>>

\* if inc < p.chooseInc { doChoose = inc == 1 || inc == 10 || inc == 100 }
\* else { doChoose = inc == p.chooseInc*2 }
DoChoose(inc, chooseInc) ==
  IF inc < chooseInc THEN inc \in RampCounts ELSE inc = chooseInc * 2

\* Put(b), b non-nil and within the buckets: pInc.puts.Add(1); pPut.put(b);
\* inc := p.puts.Add(1); return unless doChoose
V2Put ==
  LET inc == v2pool.puts + 1 IN
  /\ v2pool.st = "idle" /\ v2pool.n < MaxV2Puts
  /\ v2pool' = [v2pool EXCEPT
                  !.n = @ + 1, !.puts = inc, !.inc = inc,
                  !.st = IF DoChoose(inc, v2pool.chooseInc) THEN "choose"
                         ELSE "idle"]
  /\ UNCHANGED v2Frame

\* p.def.Store(p.chooseDefPool()); p.reducePuts()
V2Choose ==
  /\ v2pool.st = "choose"
  /\ v2pool' = [v2pool EXCEPT !.chose = @ \cup {v2pool.n}, !.st = "store"]
  /\ UNCHANGED v2Frame

\* defer p.puts.Store(p.chooseInc)
V2Store ==
  /\ v2pool.st = "store"
  /\ v2pool' = [v2pool EXCEPT !.puts = v2pool.chooseInc, !.st = "idle"]
  /\ UNCHANGED v2Frame

\* NewBucketFull(sizes, BucketPoolOptions{ChooseInc: c}): puts is 0
InitV2 ==
  /\ InitState /\ impl = "bucket" /\ calls = NoCalls /\ NewPoolers
  /\ gen = NoGen /\ rel = NoRel
  /\ v2pool \in {[NoV2 EXCEPT !.chooseInc = c, !.st = "idle"] : c \in V2Incs}

V2Next == V2Put \/ V2Choose \/ V2Store

SpecV2 == InitV2 /\ [][V2Next]_vars

\* ==== C32 ================================================================
\* the Puts made so far, none under way
V2Done == IF v2pool.st = "idle" THEN 1 .. v2pool.n ELSE {}

\* C32 as stated: in the first cycle of a new pool (fewer Puts than
\* chooseInc so far) choose-default and decay run at the Puts number 1, 10
\* and 100 and at no other, and afterwards once every chooseInc Puts.
C32_Ramp ==
  \A k \in V2Done :
    k < v2pool.chooseInc => (k \in v2pool.chose <=> k \in RampCounts)

\* the first Put that chooses: Put 1, or Put 2 when chooseInc is 1
FirstChoice == IF v2pool.chooseInc > 1 THEN 1 ELSE 2

\* C32, what the code does: choose-default and decay run at the first Put
\* (the second when chooseInc is 1), which leaves the put counter at
\* chooseInc, and from then on at every chooseInc-th Put after it; the
\* counter is never below chooseInc again, so no Put sees 10 or 100 on the
\* ramp.
C32_OncePerChooseInc ==
  /\ \A k \in V2Done :
       k \in v2pool.chose <=>
         k >= FirstChoice /\ (k - FirstChoice) % v2pool.chooseInc = 0
  /\ v2pool.st = "idle" /\ v2pool.n >= FirstChoice =>
       /\ v2pool.puts >= v2pool.chooseInc
       /\ v2pool.puts < 2 * v2pool.chooseInc

\* a pool with chooseInc above 100 after 100 Puts: only the first chose
C32_Witness ==
  /\ v2pool.chooseInc > 100 /\ v2pool.st = "idle" /\ v2pool.n = 100
  /\ v2pool.chose = {1}
  /\ v2pool.puts = v2pool.chooseInc + 99

\* later cycles: the Puts 1, 1 + chooseInc and 1 + 2*chooseInc have chosen
C32_Cycles ==
  /\ v2pool.chooseInc = 101 /\ v2pool.st = "idle"
  /\ v2pool.chose = {1, 102, 203}

\* ==== C33 ================================================================
\* the goroutines at an access of the sample lists: the append of over()
\* and the slices.Clone of Stats()
ListAccess == {t \in Threads : pc[t] \in {"over_append", "st_clone"}}

\* C33: the sample lists getOvers and putOvers are read (by Stats()) or
\* changed (by over()) only by the goroutine that holds the test-and-set
\* lock; at most one goroutine holds it at any time, so no two goroutines
\* are at an access of the lists together, whatever the interleaving of
\* the gets, Puts and Stats() calls.
C33_ListsUnderLock ==
  /\ [](/\ Cardinality(LockHolders) <= 1
        /\ Cardinality(ListAccess) <= 1
        /\ ListAccess \subseteq LockHolders
        /\ LockHolders # {} => oversLock)
  /\ [][getOvers' # getOvers \/ putOvers' # putOvers =>
          \E t \in LockHolders :
            /\ pc[t] = "over_append" /\ Moved(t)
            /\ oversLock /\ oversLock' /\ LockHolders' = {t}
            /\ \A u \in Threads \ {t} : ~Moved(u)]_vars
  /\ [][\A t \in Threads :
          pc[t] = "st_clone" /\ Moved(t) =>
            /\ LockHolders = {t} /\ oversLock /\ oversLock'
            /\ getOvers' = getOvers /\ putOvers' = putOvers
            /\ call'[t].ps.GetOvers = getOvers
            /\ call'[t].ps.PutOvers = putOvers]_vars

\* a Stats() holds the lock and is about to copy the lists, while an
\* overflowing get has counted and then left over() without touching the
\* lists, because its Swap found the lock held
C33_Witness ==
  \E t \in Threads : \E u \in Threads \ {t} :
    /\ pc[t] = "st_clone" /\ pc[u] = "over_done" /\ call[u].op = "GetGrown"
    /\ oversLock /\ LockHolders = {t}
    /\ overs > Len(getOvers) + Len(putOvers)

\* ==== C34 ================================================================
\* the steps of goroutine t inside BucketPooler.Put, the deferred
\* BucketPool.Put included
PutStep(t) ==
  \/ PBinAdd(t) \/ PInc(t) \/ PChoose(t) \/ PStore(t) \/ PRLoad(t) \/ PRCas(t)
  \/ PReset(t)
  \/ OverAdd(t) \/ OverSwap(t) \/ OverAppend(t) \/ OverUnlock(t) \/ OverDone(t)
  \/ SpPut(t) \/ Return(t)

\* goroutines that hold a Bytes each Put it on a pooler of the one pool, in
\* any interleaving
PutsNext ==
  \E t \in Threads :
    \/ held[t] # 0 /\ \E p \in Poolers :
                        \E s \in CallerSlices(bufs[held[t]]) : CallPPut(t, p, s)
    \/ PutStep(t)

\* the scheduler leaves no goroutine that can take a step waiting for ever
SpecPuts ==
  /\ InitHeld /\ [][PutsNext]_vars
  /\ \A t \in Threads : WF_vars(PutStep(t))

\* goroutine t is inside BucketPooler.Put
InPut(t) == call[t].op = "PPut" /\ pc[t] \notin {"idle", "ret", "panic"}

\* the CompareAndSwap of t's reducePuts fails: t loads the same bin again
Retries(t) ==
  /\ pc[t] = "pp_rcas" /\ pc'[t] = "pp_rload" /\ call'[t].j = call[t].j
  /\ bins' = bins

\* C34: a goroutine inside BucketPooler.Put can always take its next step
\* (it waits for no lock and for no other goroutine); the compare-and-swap
\* loop of reducePuts loads a bin again only when the bin's put counter is
\* no longer the value it had loaded, that is when another goroutine
\* changed it in between; and with finitely many Puts under a fair
\* scheduler every Put returns, without a panic.
C34_PutsTerminate ==
  /\ [](\A t \in Threads : InPut(t) => ENABLED PutStep(t))
  /\ [][\A t \in Threads :
          Retries(t) => bins[call[t].p][call[t].j].puts # call[t].v]_vars
  /\ [][\A t \in Threads :
          pc[t] = "pp_rcas" /\ Moved(t) /\ ~Retries(t) =>
            /\ bins[call[t].p][call[t].j].puts = call[t].v
            /\ call'[t].j = call[t].j + 1]_vars
  /\ \A t \in Threads : InPut(t) ~> (pc[t] = "ret" /\ call[t].op = "PPut")
  /\ [](err = "")

\* a Put has returned after its reducePuts had to load a bin again, because
\* the Put of the other goroutine had counted in that bin in between
C34_Witness ==
  \E t \in Threads : \E u \in Threads \ {t} :
    /\ pc[t] = "pp_rload" /\ call[t].op = "PPut"
    /\ call[t].v # bins[call[t].p][call[t].j].puts
    /\ call[u].op = "PPut" /\ call[u].p = call[t].p /\ call[u].bin = call[t].j
    /\ pc[u] \notin {"idle", "pp_binadd"}

\* ======================================================================
\* internal.GrowMinMax (src/unnamed/part_008)

MaxCap == 9        \* largest capacity of the slice handed to GrowMinMax
MaxGrow == 17      \* largest min and max handed to GrowMinMax

\* slices.Grow(s[:0], min): the capacity is kept when it holds min elements,
\* else it is the one append gives
GrownCap(s, min) == IF min - s.cap > 0 THEN AppendCap(s.cap, min) ELSE s.cap

\* a GrowMinMax that does not clip
GrowMinOnly(s, min, max) == [len |-> 0, cap |-> GrownCap(s, min)]

\* GrowMinMax(s, min, max): s = s[:0]; s = slices.Grow(s, min);
\* if cap(s) < max { return s }; return s[:0:max]
GrowMinMax(s, min, max) ==
  IF GrownCap(s, min) < max THEN [len |-> 0, cap |-> GrownCap(s, min)]
  ELSE [len |-> 0, cap |-> max]

\* the slices handed to GrowMinMax
GrowSlices == {[len |-> l, cap |-> c] : l \in 0 .. MaxCap, c \in 0 .. MaxCap}

\* a program about to call GrowMinMax(s, min, max) with 0 <= min, 0 <= max
GrowCalls ==
  {[NoGen EXCEPT !.fn = "GrowMinMax", !.st = "call", !.slice = s,
                 !.min = a, !.max = b] :
     s \in {x \in GrowSlices : x.len <= x.cap},
     a \in 0 .. MaxGrow, b \in 0 .. MaxGrow}

InitGrow ==
  /\ InitState /\ impl = "bucket" /\ calls = NoCalls /\ NewPoolers
  /\ gen \in GrowCalls /\ rel = NoRel /\ v2pool = NoV2

\* the call returns its slice
GrowMinMaxCall ==
  /\ gen.fn = "GrowMinMax" /\ gen.st = "call"
  /\ gen' = [gen EXCEPT !.st = "done",
                        !.out = GrowMinMax(gen.slice, gen.min, gen.max)]
  /\ UNCHANGED genFrame

SpecGrow == InitGrow /\ [][GrowMinMaxCall]_vars

\* ==== C35 ================================================================
GrowReturned == gen.fn = "GrowMinMax" /\ gen.st = "done"

\* C35: GrowMinMax(s, min, max) with 0 <= min and 0 <= max returns a slice
\* of length 0 whose capacity is at most max, at least min whenever
\* min <= max, and exactly max when min > max.
C35_GrowMinMax ==
  GrowReturned =>
    /\ gen.out.len = 0
    /\ gen.out.cap <= gen.max
    /\ gen.min <= gen.max => gen.out.cap >= gen.min
    /\ gen.min > gen.max => gen.out.cap = gen.max

\* GrowMinMax([]byte{1}, 9, 15): append gives 16, clipped to 15
C35_Witness ==
  /\ GrowReturned /\ gen.slice = [len |-> 1, cap |-> 1]
  /\ gen.min = 9 /\ gen.max = 15 /\ gen.out = [len |-> 0, cap |-> 15]

\* GrowMinMax([]byte{1}, 9, 2): min above max, the capacity is max
C35_MinAboveMax ==
  /\ GrowReturned /\ gen.slice = [len |-> 1, cap |-> 1]
  /\ gen.min = 9 /\ gen.max = 2 /\ gen.out = [len |-> 0, cap |-> 2]

\* GrowMinMax([]byte{1}, 9, 17): append gives 16, below max, kept
C35_Unclipped ==
  /\ GrowReturned /\ gen.slice = [len |-> 1, cap |-> 1]
  /\ gen.min = 9 /\ gen.max = 17 /\ gen.out = [len |-> 0, cap |-> 16]

\* ==== C36 ================================================================
\* where a Put is between its puts.Add(1) and its deferred puts.Store(0)
ChoosePcs == {"pp_choose", "pp_store", "pp_rload", "pp_rcas", "pp_reset"}

\* the Puts on pooler p that have seen the counter at chooseInc and have not
\* reset it yet
Choosing(p) ==
  {t \in Threads : /\ call[t].op = "PPut" /\ call[t].p = p
                   /\ pc[t] \in ChoosePcs /\ call[t].inc > 0}

\* C36: with concurrent Puts on one pooler past the ramp, at most one Put
\* at a time is between seeing the counter at chooseInc and resetting it;
\* until it resets, the counter stays at chooseInc or above, so no other
\* Put of the cycle sees chooseInc; a Put that sees a larger count chooses
\* nothing, decays nothing and goes on to the BucketPool's Put; and the
\* counter goes back to 0 only by the deferred Store of that one Put, after
\* its chooseDefPool and reducePuts have gone through every bin.
C36_OneChoicePerCycle ==
  /\ [](\A p \in Poolers :
          /\ Cardinality(Choosing(p)) <= 1
          /\ \A t \in Choosing(p) :
               call[t].inc = ChooseInc /\ puts[p] >= ChooseInc)
  /\ [](\A t \in Threads :
          call[t].op = "PPut" /\ pc[t] \in ChoosePcs =>
            call[t].inc <= 0 \/ call[t].inc = ChooseInc)
  /\ [][\A t \in Threads :
          pc[t] = "pp_inc" /\ Moved(t) =>
            LET p == call[t].p IN
            /\ call'[t].inc = puts[p] + 1 /\ puts'[p] = puts[p] + 1
            /\ call'[t].inc > ChooseInc =>
                 /\ pc'[t] = PutTail(t)
                 /\ bins' = bins /\ defIdx' = defIdx
            /\ call'[t].inc = ChooseInc =>
                 Choosing(p) = {} /\ Choosing(p)' = {t}]_vars
  /\ [][\A p \in Poolers :
          puts'[p] < puts[p] =>
            \E t \in Choosing(p) :
              /\ pc[t] = "pp_reset" /\ Moved(t) /\ call[t].j = N
              /\ puts'[p] = 0 /\ Choosing(p)' = {}
              /\ bins' = bins /\ defIdx' = defIdx]_vars

\* one Put has seen chooseInc, has chosen and decayed and is about to reset
\* the counter; the other Put on the same pooler saw chooseInc + 1 in the
\* meantime and has returned without choosing
C36_Witness ==
  \E t \in Threads : \E u \in Threads \ {t} :
    /\ pc[t] = "pp_reset" /\ call[t].inc = ChooseInc
    /\ call[u].op = "PPut" /\ call[u].p = call[t].p
    /\ call[u].inc = ChooseInc + 1 /\ pc[u] = "ret"
    /\ puts[call[t].p] = ChooseInc + 1

\* ==== C37 ================================================================
\* where Get() uses the default index it has loaded
GetPcs == {"g_scan", "g_sphit", "g_hla", "g_mla", "g_bhit", "g_alloc",
           "g_bmiss"}

\* C37: the default index of every pooler is 0 before the first call and
\* in every reachable state at least 0 and below the number of buckets,
\* under any interleaving of Get and Put; the index a Get() has loaded and
\* every index of its lookahead window are within the bucket and bin
\* arrays, and so is the index chooseDefPool is about to store.
C37_DefaultIndex ==
  /\ \A p \in Poolers : defIdx[p] \in Idx /\ (ops = 0 => defIdx[p] = 0)
  /\ \A t \in Threads :
       /\ call[t].op = "Get" /\ pc[t] \in GetPcs =>
            /\ call[t].d \in Idx
            /\ pc[t] = "g_scan" => call[t].d + call[t].i \in Idx
            /\ pc[t] \in {"g_sphit", "g_hla", "g_mla", "g_bhit"} =>
                 call[t].idx \in Idx
       /\ pc[t] = "pp_store" => call[t].best \in Idx

\* the default index is the last bucket, and a Get() that loaded it has
\* found that bucket empty, was stopped by the end of the bin array and
\* allocates from the last bucket
C37_Witness ==
  \E t \in Threads :
    /\ call[t].op = "Get" /\ pc[t] = "g_alloc"
    /\ defIdx[call[t].p] = N - 1 /\ call[t].d = N - 1 /\ call[t].i = 1

\* ==== C38 ================================================================
RECURSIVE SumTo(_, _)
\* f[0] + ... + f[k]
SumTo(f, k) == IF k < 0 THEN 0 ELSE f[k] + SumTo(f, k - 1)

\* the sum over the bins of pooler p of counter c
BinSum(p, c) == SumTo([i \in Idx |-> bins[p][i][c]], N - 1)

\* the Get() calls on pooler p that have counted their hit or miss and have
\* not returned to their caller yet
Counting(p) ==
  {t \in Threads : call[t].op = "Get" /\ call[t].p = p /\ pc[t] = "ret"}

\* the Get() calls on pooler p between their two lookahead counters
HalfLookahead(p) ==
  {t \in Threads : call[t].op = "Get" /\ call[t].p = p /\ pc[t] = "g_mla"}

\* the Get() calls on pooler p that found a Bytes ahead of the default
\* bucket, in bin i, and have counted hitsLookahead but not hits yet
AheadOfHits(p, i) ==
  {t \in Threads : /\ call[t].op = "Get" /\ call[t].p = p /\ call[t].idx = i
                   /\ pc[t] \in {"g_mla", "g_bhit"} /\ call[t].i > 0}

\* C38: for every pooler, the bins' hits and misses together count the
\* Get() calls that have returned plus those that have counted and are
\* about to return; the lookahead hits count the lookahead misses plus the
\* Get() calls between the two increments; and hitsLookahead of a bin is
\* its hits at most, plus the Get() calls that have counted the lookahead
\* hit and not the hit yet.  So in every quiescent state hits + misses is
\* the number of completed Get() calls, the sums of hitsLookahead and
\* missesLookahead are equal, and hitsLookahead[i] <= hits[i].
C38_Conservation ==
  \A p \in Poolers :
    /\ BinSum(p, "hits") + BinSum(p, "misses")
         = gets[p] + Cardinality(Counting(p))
    /\ BinSum(p, "hitsLookahead")
         = BinSum(p, "missesLookahead") + Cardinality(HalfLookahead(p))
    /\ \A i \in Idx :
         bins[p][i].hitsLookahead
           <= bins[p][i].hits + Cardinality(AheadOfHits(p, i))
    /\ Quiet =>
         /\ BinSum(p, "hits") + BinSum(p, "misses") = gets[p]
         /\ BinSum(p, "hitsLookahead") = BinSum(p, "missesLookahead")
         /\ \A i \in Idx : bins[p][i].hitsLookahead <= bins[p][i].hits

\* quiescent, after a Get() that found a Bytes one bucket ahead of the
\* default and a Get() that found nothing and allocated
C38_Witness ==
  \E p \in Poolers :
    /\ Quiet /\ gets[p] = 2
    /\ BinSum(p, "hits") = 1 /\ BinSum(p, "misses") = 1
    /\ BinSum(p, "hitsLookahead") = 1 /\ BinSum(p, "missesLookahead") = 1

\* ==== C39 ================================================================
\* goroutine t is in a BucketPooler.Put of a Bytes whose length is beyond
\* the largest bucket
LongPut(t) == call[t].op = "PPut" /\ call[t].c > MaxSize

\* where such a Put can be: in over() of the BucketPool's Put, or returning
OverPcs == {"over_add", "over_swap", "over_append", "over_unlock",
            "over_done", "ret"}

\* C39: a BucketPooler.Put of a Bytes whose length exceeds the largest
\* bucket size resolves no bin; from its call to its return it changes no
\* bin, neither the put counter nor the default index of any pooler and no
\* hit or miss counter, it runs neither chooseDefPool nor reducePuts, its
\* Bytes enters no free-list, and it goes once through over(), which adds
\* exactly one to the overflow counter and, when the sample lock was free,
\* the capacity to the put samples and nothing to the get samples.
C39_OverLongPut ==
  /\ [](\A t \in Threads :
          LongPut(t) =>
            /\ pc[t] \in OverPcs
            /\ call[t].bin = -1 /\ call[t].idx = -1
            /\ \A i \in Idx : call[t].b \notin freelist[i])
  /\ [][\A t \in Threads :
          LongPut(t)' /\ Moved(t) =>
            /\ bins' = bins /\ puts' = puts /\ defIdx' = defIdx
            /\ freelist' = freelist /\ hits' = hits /\ misses' = misses
            /\ ~LongPut(t) => pc'[t] = "over_add" /\ overs' = overs
            /\ overs' = overs + (IF pc[t] = "over_add" THEN 1 ELSE 0)
            /\ getOvers' = getOvers
            /\ putOvers' = (IF pc[t] = "over_append"
                            THEN AddOver(putOvers, bufs[call[t].b].cap)
                            ELSE putOvers)
            /\ LongPut(t) /\ pc[t] # "over_add" => pc'[t] # "over_add"]_vars
  /\ [][\A t \in Threads :
          LongPut(t) /\ ~LongPut(t)' => pc[t] = "ret" /\ pc'[t] = "idle"]_vars

\* such a Put has returned: one overflow counted, its capacity sampled, the
\* pooler's counters as they were made and every free-list empty
C39_Witness ==
  \E t \in Threads :
    /\ LongPut(t) /\ pc[t] = "ret"
    /\ overs = 1 /\ putOvers = <<bufs[call[t].b].cap>> /\ getOvers = <<>>
    /\ puts[call[t].p] \in {RampStart, ChooseInc - 1}
    /\ \A i \in Idx : bins[call[t].p][i].puts <= 1 /\ freelist[i] = {}

\* ======================================================================
\* The dynamicPool under concurrent callers

MaxDynOps == 4     \* calls started in one behaviour of SpecDyn

\* the steps of goroutine t inside a call on the dynamicPool
DynStep(t) ==
  \/ DGet(t) \/ DAlloc(t) \/ DAdd(t) \/ DCas(t) \/ DSwap(t) \/ DSort(t)
  \/ DStoreDef(t) \/ DStoreMax(t) \/ DUnlock(t) \/ DMax(t) \/ DPut(t)
  \/ Return(t)

\* goroutines call Get and Put on one dynamicPool and interleave freely
DynNext ==
  \E t \in Threads :
    \/ ops < MaxDynOps /\ (CallDyn(t, "DGet", 0) \/ CallDPutNil(t))
    \/ ops < MaxDynOps /\ held[t] # 0
         /\ \E s \in CallerSlices(bufs[held[t]]) : CallDPut(t, s)
    \/ DynStep(t)

SpecDyn == InitDynamic /\ [][DynNext]_vars

\* ==== C40 ================================================================
\* the goroutines inside the body of calibrate, past the CompareAndSwap
Calibrating ==
  {t \in Threads :
     pc[t] \in {"d_swap", "d_sort", "d_storedef", "d_storemax", "d_unlock"}}

\* C40: at most one goroutine at a time is inside the body of calibrate;
\* the calibrating flag is 1 exactly while one is and 0 otherwise; a
\* goroutine whose CompareAndSwap finds the flag set returns from
\* calibrate at once and changes neither the flag nor a call counter nor
\* defaultSize, maxSize or callSizes; and defaultSize, maxSize and
\* callSizes change only in steps of the goroutine that won the
\* CompareAndSwap.
C40_CalibrateExclusive ==
  /\ [](/\ Cardinality(Calibrating) <= 1
        /\ calibrating \in {0, 1}
        /\ calibrating = 1 <=> Calibrating # {})
  /\ [][\A t \in Threads :
          pc[t] = "d_cas" /\ Moved(t) =>
            IF calibrating = 0
            THEN /\ calibrating' = 1 /\ Calibrating' = {t}
                 /\ calls' = calls
            ELSE /\ pc'[t] = "d_max" /\ call'[t] = call[t]
                 /\ calls' = calls /\ calibrating' = calibrating
                 /\ defaultSize' = defaultSize /\ maxSize' = maxSize
                 /\ callSizes' = callSizes]_vars
  /\ [][defaultSize' # defaultSize \/ maxSize' # maxSize
          \/ callSizes' # callSizes =>
            \E t \in Calibrating' \cup Calibrating :
              /\ Moved(t) /\ Calibrating \subseteq {t}
              /\ \A u \in Threads \ {t} : ~Moved(u)]_vars
  /\ [][\A t \in Calibrating :
          Moved(t) /\ t \notin Calibrating' =>
            pc[t] = "d_unlock" /\ calibrating' = 0]_vars

\* one Put is inside calibrate, having taken over the count of both Puts;
\* the other Put had counted past the threshold too, found the flag set and
\* went on past calibrate
C40_Witness ==
  \E t \in Threads : \E u \in Threads \ {t} :
    /\ pc[t] = "d_sort" /\ calibrating = 1
    /\ pc[u] = "d_max" /\ call[u].op = "DPut"
    /\ callSizes[1].calls = calibrateCallsThreshold + 2

====
